---- MODULE Spec2Model ----
(***************************************************************************)
(* Census desktop client (src/frontend/census_app.py and                   *)
(* src/frontend/census_crud_ui.py): the Oracle gateway (OracleDB), the two *)
(* entry points' handlers (CensusApp, App), the reusable grid              *)
(* (DataTreeview) and its CSV export.                                      *)
(*                                                                         *)
(* Texts are sequences of one-character strings, so that parsing,          *)
(* formatting and substring matching are computed, not assumed.            *)
(***************************************************************************)
EXTENDS Integers, Sequences, FiniteSets, TLC

VARIABLES
    app,        \* which entry point is running: "census_app" or "census_crud_ui"
    db,         \* self.db: NoDb (None) or the index in conns of the OracleDB held
    conns,      \* every connection opened so far: [state, txn]
    committed,  \* serial numbers of the mutating calls whose writes are durable
    failed,     \* serial numbers of the mutating calls that raised
    callNo,     \* serial number of the last mutating gateway call
    mut,        \* the last mutating gateway call: [no, op, conn, result, commits]
    act,        \* the last user action: what it issued and showed
    status,     \* CensusApp.conn_status label text
    connFailed, \* the latest connect attempt failed and none has succeeded since
    form,       \* the person form's text variables
    which,      \* the DataTreeview looked at: "person_tree", "ea_tree", "report_tree"
    columns,    \* DataTreeview.columns
    data,       \* DataTreeview.data: the loaded rows
    search,     \* the text of DataTreeview.search_var
    tree,       \* the items of DataTreeview.tree, top to bottom
    selection,  \* the selected item of DataTreeview.tree (NoSelection: none)
    oldTrees,   \* the Treeview widgets of earlier _init_widgets calls
    file,       \* the file at the path the export dialog returns
    dialog,     \* what the grid's last handler asked and told the user
    last        \* the last grid operation, its argument, the item selected before it

gwVars == <<app, db, conns, committed, failed, callNo, mut, act, status, connFailed, form>>

gridVars ==
    <<which, columns, data, search, tree, selection, oldTrees, file, dialog, last>>

vars == <<gwVars, gridVars>>

(***************************************************************************)
(* Bounds of the model.                                                    *)
(***************************************************************************)
MaxConns == 2    \* connections opened in one run
MaxCalls == 2    \* mutating gateway calls issued in one run
MaxRows == 2     \* rows in one loaded row set of a fixed-column grid
MaxReconfig == 2 \* column reconfigurations of the report grid in one run

(***************************************************************************)
(* Texts.                                                                  *)
(***************************************************************************)
Digits == {"0", "1", "2", "3", "4", "5", "6", "7", "8", "9"}

DigitVal(ch) ==
    CASE ch = "0" -> 0 [] ch = "1" -> 1 [] ch = "2" -> 2 [] ch = "3" -> 3
      [] ch = "4" -> 4 [] ch = "5" -> 5 [] ch = "6" -> 6 [] ch = "7" -> 7
      [] ch = "8" -> 8 [] ch = "9" -> 9

DigitChar(d) ==
    CASE d = 0 -> "0" [] d = 1 -> "1" [] d = 2 -> "2" [] d = 3 -> "3"
      [] d = 4 -> "4" [] d = 5 -> "5" [] d = 6 -> "6" [] d = 7 -> "7"
      [] d = 8 -> "8" [] d = 9 -> "9"

\* Python values that cross the gateway: None, an int, a str, a datetime.date.
None == [tag |-> "None"]
IntV(n) == [tag |-> "int", i |-> n]
StrV(s) == [tag |-> "str", s |-> s]
DateV(y, m, d) == [tag |-> "date", y |-> y, m |-> m, d |-> d]
\* The ValueError an int() or strptime() call raises.
ValueError == [tag |-> "ValueError"]

\* int(s) on a text of the model's alphabet: decimal digits give the number,
\* anything else (and the empty text) raises ValueError.
AllDigits(s) == Len(s) > 0 /\ \A i \in 1..Len(s) : s[i] \in Digits

RECURSIVE DigitsValue(_)
DigitsValue(s) ==
    IF Len(s) = 0 THEN 0
    ELSE 10 * DigitsValue(SubSeq(s, 1, Len(s) - 1)) + DigitVal(s[Len(s)])

int(s) == IF AllDigits(s) THEN IntV(DigitsValue(s)) ELSE ValueError

\* str(n) for n >= 0.
RECURSIVE str_int(_)
str_int(n) ==
    IF n < 10 THEN <<DigitChar(n)>>
    ELSE Append(str_int(n \div 10), DigitChar(n % 10))

\* str(v) of a cell: 'None' for None, the decimal digits of an int, the text
\* of a str.
str(v) ==
    CASE v.tag = "None" -> <<"N", "o", "n", "e">>
      [] v.tag = "int" -> str_int(v.i)
      [] v.tag = "str" -> v.s

\* row.get(col, '')
get(row, col) == IF col \in DOMAIN row THEN row[col] ELSE StrV(<<>>)

\* The parts of s between occurrences of sep.
RECURSIVE Split(_, _)
Split(s, sep) ==
    IF \A i \in 1..Len(s) : s[i] # sep THEN <<s>>
    ELSE LET k == CHOOSE i \in 1..Len(s) :
                      s[i] = sep /\ \A j \in 1..(i - 1) : s[j] # sep
         IN <<SubSeq(s, 1, k - 1)>> \o Split(SubSeq(s, k + 1, Len(s)), sep)

IsLeap(y) == (y % 4 = 0 /\ y % 100 # 0) \/ y % 400 = 0

DaysIn(y, m) ==
    IF m = 2 THEN (IF IsLeap(y) THEN 29 ELSE 28)
    ELSE IF m \in {4, 6, 9, 11} THEN 30 ELSE 31

\* dt.datetime.strptime(s, "%Y-%m-%d").date(): four year digits, one or two
\* month and day digits, a date of the calendar; ValueError otherwise.
strptime(s) ==
    LET p == Split(s, "-") IN
    IF /\ Len(p) = 3
       /\ AllDigits(p[1]) /\ Len(p[1]) = 4
       /\ AllDigits(p[2]) /\ Len(p[2]) \in {1, 2}
       /\ AllDigits(p[3]) /\ Len(p[3]) \in {1, 2}
    THEN LET y == DigitsValue(p[1])
             m == DigitsValue(p[2])
             d == DigitsValue(p[3])
         IN IF y >= 1 /\ m \in 1..12 /\ d \in 1..DaysIn(y, m)
            THEN DateV(y, m, d) ELSE ValueError
    ELSE ValueError

\* n in at least w decimal digits, zero-padded
RECURSIVE zero_pad(_, _)
zero_pad(n, w) ==
    IF Len(str_int(n)) >= w THEN str_int(n)
    ELSE <<"0">> \o zero_pad(n, w - 1)

\* value.strftime('%Y-%m-%d')
strftime(v) ==
    zero_pad(v.y, 4) \o <<"-">> \o zero_pad(v.m, 2) \o <<"-">> \o zero_pad(v.d, 2)

(***************************************************************************)
(* Backend Gateway: class OracleDB of both files.                          *)
(*                                                                         *)
(* The operators below are functions of a record s holding the program's   *)
(* state plus "raised" (an exception is in flight) and "ret" (the value    *)
(* returned).  The outcome of each driver operation is an input.           *)
(***************************************************************************)
NoDb == 0

NoCall == [no |-> 0, op |-> "none", conn |-> 0, result |-> "none", commits |-> 0]

NoAct(name) ==
    [name |-> name, calls |-> 0, onClosed |-> FALSE, dialogs |-> {},
     escaped |-> FALSE, loaded |-> {}, badForm |-> FALSE, args |-> <<>>,
     input |-> <<>>, errors |-> 0, shown |-> 0,
     cursor |-> [tuples |-> <<>>, pos |-> 0], returned |-> <<>>]

ExecOutcomes == {"ok", "error"}
\* conn.commit() returns, or raises with the transaction rolled back by the
\* server, or raises with the transaction still open in the session.
CommitOutcomes == {"ok", "error_rolled_back", "error_pending"}
ConnectOutcomes == {"ok", "error"}
IdOutcomes == {"number", "null"}

\* The person form's variables (self.person_vars / self.vars, whose
\* date_of_birth variable census_crud_ui names 'dob'), and locality_code,
\* which only census_crud_ui has.
PersonVars ==
    <<"person_id", "ea_code", "structure_no", "household_no", "line_no",
      "full_name", "sex", "date_of_birth", "age_years", "nationality",
      "ethnicity", "religion", "marital_status">>
FormVars == {PersonVars[i] : i \in 1..Len(PersonVars)} \cup {"locality_code"}

\* The insert parameters with age_years and line_no in each other's place.
InsertParams_AgeBeforeLine ==
    <<"ea_code", "structure_no", "household_no", "age_years", "full_name", "sex",
      "date_of_birth", "line_no", "nationality", "ethnicity", "religion",
      "marital_status">>

\* The IN parameters of INSERT_PERSON and of UPDATE_PERSON, in call order.
InsertParams ==
    <<"ea_code", "structure_no", "household_no", "line_no", "full_name", "sex",
      "date_of_birth", "age_years", "nationality", "ethnicity", "religion",
      "marital_status">>
UpdateParams ==
    <<"person_id", "full_name", "sex", "date_of_birth", "age_years",
      "nationality", "ethnicity", "religion", "marital_status">>

\* out_person_id = cur.var(oracledb.NUMBER)
OutVar == [tag |-> "out"]

\* data.get(key) / p.key
dict_get(d, k) == IF k \in DOMAIN d THEN d[k] ELSE None

St ==
    [db |-> db, conns |-> conns, committed |-> committed, failed |-> failed,
     callNo |-> callNo, mut |-> mut, act |-> act, status |-> status,
     connFailed |-> connFailed, form |-> form, raised |-> FALSE, ret |-> 0]

\* The driver raises a backend or driver error inside the running handler.
Raise(s) == [s EXCEPT !.raised = TRUE, !.act.errors = @ + 1]

\* OracleDB.__init__: oracledb.connect opens a session with autocommit off.
OracleDB_init(s, out) ==
    IF out = "ok"
    THEN [s EXCEPT !.conns = Append(@, [state |-> "open", txn |-> {}]),
                   !.ret = Len(s.conns) + 1]
    ELSE Raise(s)

\* OracleDB.close: conn.close() ends the session, which rolls back its open
\* transaction; an error (the connection is closed already) is swallowed.
close(s, c) ==
    IF s.conns[c].state = "open"
    THEN [s EXCEPT !.conns[c] = [state |-> "closed", txn |-> {}]]
    ELSE s

\* conn.cursor() and cur.execute / cur.callproc of a statement that writes: the
\* driver raises on a closed connection, the backend may reject the statement
\* (statement-level atomicity: a rejected statement writes nothing), else the
\* write joins the session's open transaction.
cursor_write(s, no, out) ==
    LET c == s.db
        closed == s.conns[c].state = "closed"
        s1 == [s EXCEPT !.act.calls = @ + 1, !.act.onClosed = @ \/ closed]
    IN IF closed \/ out = "error"
       THEN Raise(s1)
       ELSE [s1 EXCEPT !.conns[c].txn = @ \cup {no}]

\* self.conn.commit()
conn_commit(s, out) ==
    LET c == s.db IN
    CASE out = "ok" ->
           [s EXCEPT !.committed = @ \cup s.conns[c].txn,
                     !.conns[c].txn = {},
                     !.mut.commits = @ + 1]
      [] out = "error_rolled_back" ->
           Raise([s EXCEPT !.conns[c].txn = {}])
      [] out = "error_pending" ->
           Raise(s)

\* The bookkeeping of one mutating gateway call: its serial number and the
\* parameters sent on entry, its result on exit.
BeginCall(s, op, args) ==
    [s EXCEPT !.callNo = @ + 1,
              !.mut = [no |-> s.callNo + 1, op |-> op, conn |-> s.db,
                       result |-> "error", commits |-> 0],
              !.act.args = args]

EndCall(s) ==
    IF s.raised THEN [s EXCEPT !.failed = @ \cup {s.mut.no}]
    ELSE [s EXCEPT !.mut.result = "ok", !.ret = s.mut.no]

\* execute_non_query with the commit left out.
execute_non_query_NoCommit(s, op, params, eo, co) ==
    LET s0 == BeginCall(s, op, params)
        s1 == cursor_write(s0, s0.mut.no, eo)
    IN EndCall(s1)

\* OracleDB.execute_non_query: execute, read rowcount, commit, return.
execute_non_query(s, op, params, eo, co) ==
    LET s0 == BeginCall(s, op, params)
        s1 == cursor_write(s0, s0.mut.no, eo)
        s2 == IF s1.raised THEN s1 ELSE conn_commit(s1, co)
    IN EndCall(s2)

\* OracleDB.insert_household
insert_household(s, hh_data, eo, co) ==
    execute_non_query(s, "insert_household", hh_data, eo, co)

\* OracleDB.sp_insert_person (both files): callproc INSERT_PERSON, commit,
\* then int(out_person_id.getvalue()), which raises when the procedure left
\* the out parameter NULL (io = "null"); the person_id returned is here the
\* call's serial number.
sp_insert_person(s, p, eo, co, io) ==
    LET params == [i \in 1..Len(InsertParams) |-> dict_get(p, InsertParams[i])]
                  \o <<OutVar>>
        s0 == BeginCall(s, "sp_insert_person", params)
        s1 == cursor_write(s0, s0.mut.no, eo)
        s2 == IF s1.raised THEN s1 ELSE conn_commit(s1, co)
        s3 == IF ~s2.raised /\ io = "null" THEN [s2 EXCEPT !.raised = TRUE] ELSE s2
    IN EndCall(s3)

\* OracleDB.sp_update_person (census_crud_ui)
sp_update_person(s, p, eo, co) ==
    LET params == [i \in 1..Len(UpdateParams) |-> dict_get(p, UpdateParams[i])]
        s0 == BeginCall(s, "sp_update_person", params)
        s1 == cursor_write(s0, s0.mut.no, eo)
        s2 == IF s1.raised THEN s1 ELSE conn_commit(s1, co)
    IN EndCall(s2)

\* OracleDB.sp_delete_person (census_crud_ui)
sp_delete_person(s, person_id, eo, co) ==
    LET s0 == BeginCall(s, "sp_delete_person", <<person_id>>)
        s1 == cursor_write(s0, s0.mut.no, eo)
        s2 == IF s1.raised THEN s1 ELSE conn_commit(s1, co)
    IN EndCall(s2)

\* The clear statement with a WHERE clause naming one entry.
Statement_ClearOneEntry(op) ==
    CASE op = "clear_activity_log" ->
           [kind |-> "delete", target |-> "activity_log", where |-> TRUE]
      [] op = "insert_household" ->
           [kind |-> "insert", target |-> "household", where |-> FALSE]
      [] op = "sp_insert_person" ->
           [kind |-> "callproc", target |-> "INSERT_PERSON", where |-> FALSE]
      [] op = "sp_update_person" ->
           [kind |-> "callproc", target |-> "UPDATE_PERSON", where |-> FALSE]
      [] op = "sp_delete_person" ->
           [kind |-> "callproc", target |-> "DELETE_PERSON", where |-> FALSE]
      [] OTHER -> [kind |-> "none", target |-> "none", where |-> FALSE]

\* The statement each mutating gateway call sends: its kind, the table or
\* procedure it names, and whether it carries a WHERE clause.
Statement(op) ==
    CASE op = "clear_activity_log" ->
           [kind |-> "delete", target |-> "activity_log", where |-> FALSE]
      [] op = "insert_household" ->
           [kind |-> "insert", target |-> "household", where |-> FALSE]
      [] op = "sp_insert_person" ->
           [kind |-> "callproc", target |-> "INSERT_PERSON", where |-> FALSE]
      [] op = "sp_update_person" ->
           [kind |-> "callproc", target |-> "UPDATE_PERSON", where |-> FALSE]
      [] op = "sp_delete_person" ->
           [kind |-> "callproc", target |-> "DELETE_PERSON", where |-> FALSE]
      [] OTHER -> [kind |-> "none", target |-> "none", where |-> FALSE]

\* OracleDB.execute_query and the get_* methods built on it: a read; raises on
\* a closed connection or a backend error; never commits.
execute_query(s, out) ==
    LET closed == s.conns[s.db].state = "closed"
        s1 == [s EXCEPT !.act.calls = @ + 1, !.act.onClosed = @ \/ closed]
    IN IF closed \/ out = "error" THEN Raise(s1) ELSE s1

\* out_cursor.getvalue() after callproc: the backend cursor the OUT
\* parameter holds, none of its tuples read yet.
OpenCursor(tuples) == [tuples |-> tuples, pos |-> 0]

\* cursor.fetchall(): every tuple not read yet, the cursor left exhausted.
fetchall(c) ==
    [rows |-> SubSeq(c.tuples, c.pos + 1, Len(c.tuples)),
     cursor |-> [c EXCEPT !.pos = Len(c.tuples)]]

\* next(c) of the iteration "for r in c": one tuple, the cursor advanced.
fetchone(c) == [row |-> c.tuples[c.pos + 1], cursor |-> [c EXCEPT !.pos = @ + 1]]

\* An iteration that stops after the first tuple.
iterate_FirstOnly(c) ==
    IF c.pos >= Len(c.tuples) THEN [rows |-> <<>>, cursor |-> c]
    ELSE LET one == fetchone(c) IN [rows |-> <<one.row>>, cursor |-> one.cursor]

\* [... for r in c]: tuples are read one by one until the cursor has none.
RECURSIVE iterate(_)
iterate(c) ==
    IF c.pos >= Len(c.tuples) THEN [rows |-> <<>>, cursor |-> c]
    ELSE LET one == fetchone(c)
             rest == iterate(one.cursor)
         IN [rows |-> <<one.row>> \o rest.rows, cursor |-> rest.cursor]

\* OracleDB.sp_get_person_by_id (both files): callproc GET_PERSON_BY_ID,
\* fetchall() on the OUT cursor, and the first row as a dictionary, None when
\* there is none; row is what the procedure finds.  Nothing is committed.
sp_get_person_by_id(s, out, row) ==
    LET s1 == execute_query(s, out)
        got == fetchall(OpenCursor(IF row = None THEN <<>> ELSE <<row>>))
        found == IF got.rows = <<>> THEN None ELSE got.rows[1]
    IN IF s1.raised THEN s1
       ELSE [s1 EXCEPT !.ret = found, !.act.cursor = got.cursor,
                       !.act.returned = found]

(***************************************************************************)
(* Dialogs and the handlers' common steps.                                 *)
(***************************************************************************)
Warn(s) == [s EXCEPT !.act.dialogs = @ \cup {"warning"}]
Info(s) == [s EXCEPT !.act.dialogs = @ \cup {"info"}]
\* except Exception as e: messagebox.showerror(..., f"...{e}") or
\* messagebox.showerror(..., str(e)): the error in flight is shown with its
\* text (shown counts the backend errors so shown).
Caught(s) ==
    [s EXCEPT !.act.dialogs = @ \cup {"error"},
              !.act.shown = IF s.act.errors > @ THEN @ + 1 ELSE @,
              !.raised = FALSE]

\* An exception leaves the handler: Tk's report_callback_exception writes the
\* traceback to stderr, the window shows nothing.
Escapes(s) == [s EXCEPT !.act.escaped = TRUE, !.raised = FALSE]

Enter(s, name, bad) == [s EXCEPT !.act = [NoAct(name) EXCEPT !.badForm = bad]]

\* The person form holds text that does not coerce: date text that is not
\* YYYY-MM-DD, or non-integer text in line_no, age_years or person_id.
BadInt(t) == t # <<>> /\ int(t) = ValueError
BadDate(t) == t # <<>> /\ strptime(t) = ValueError
FormBad(f) ==
    \/ BadDate(f.date_of_birth)
    \/ BadInt(f.line_no) \/ BadInt(f.age_years) \/ BadInt(f.person_id)

(***************************************************************************)
(* census_app.py: class CensusApp.                                         *)
(***************************************************************************)
\* A load whose guard warns and then goes on to fill the handler's tree.
load_into_WarnsAndLoads(s, grid, qo) ==
    IF s.db = NoDb THEN [Warn(s) EXCEPT !.act.loaded = @ \cup {grid}]
    ELSE LET s1 == execute_query(s, qo) IN
         IF s1.raised THEN Caught(s1)
         ELSE [s1 EXCEPT !.act.loaded = @ \cup {grid}]

\* CensusApp.load_households / load_persons / load_activity_log: the
\* connection guard, one query, load_data on the handler's tree.
load_into(s, grid, qo) ==
    IF s.db = NoDb THEN Warn(s)
    ELSE LET s1 == execute_query(s, qo) IN
         IF s1.raised THEN Caught(s1)
         ELSE [s1 EXCEPT !.act.loaded = @ \cup {grid}]

load_households(s, qo) == load_into(s, "household_tree", qo)
load_persons(s, qo) == load_into(s, "person_tree", qo)
load_activity_log(s, qo) == load_into(s, "admin_tree", qo)

\* CensusApp.show_population_summary / show_age_distribution /
\* show_gender_stats: the connection guard and the report's query under a
\* try; the report grid is reconfigured and loaded when the query returns.
CensusApp_show_report(s, qo) == load_into(s, "report_tree", qo)

\* CensusApp._update_dashboard_stats: five queries under one try; an error is
\* written with its text to the statistics text, not raised.  qo is the
\* outcome of the first query; the four after it succeed when it does.
update_dashboard_stats(s, qo) ==
    IF s.db = NoDb THEN s
    ELSE LET s1 == execute_query(s, qo) IN
         IF s1.raised THEN [s1 EXCEPT !.raised = FALSE, !.act.shown = @ + 1]
         ELSE [s1 EXCEPT !.act.calls = @ + 4]

\* CensusApp._on_region_selected: the connection guard, then get_districts
\* for the region chosen, outside any try.
CensusApp_on_region_selected(s, region_code, qo) ==
    IF s.db = NoDb THEN Warn(s)
    ELSE IF region_code = <<>> THEN s
    ELSE LET s1 == execute_query(s, qo) IN
         IF s1.raised THEN Escapes(s1) ELSE s1

\* The table counts of show_db_stats: one query per table, each in a try of
\* its own whose bare except writes "<Table>: Error" in place of the count.
RECURSIVE table_counts(_, _)
table_counts(s, q) ==
    IF q = <<>> THEN s
    ELSE LET s1 == execute_query(s, Head(q))
         IN table_counts([s1 EXCEPT !.raised = FALSE], Tail(q))

\* CensusApp.show_db_stats; q[i] is the outcome of the count of tables[i].
CensusApp_show_db_stats(s, q) ==
    IF s.db = NoDb THEN Warn(s) ELSE table_counts(s, q)

\* CensusApp.refresh_all_data; q[1..4] are the outcomes of get_regions,
\* get_enumeration_areas, get_activity_log and the dashboard statistics.
refresh_all_data(s, q) ==
    IF s.db = NoDb THEN Warn(s)
    ELSE LET s1 == execute_query(s, q[1]) IN
         IF s1.raised THEN Caught(s1)
         ELSE LET s2 == execute_query(s1, q[2]) IN
         IF s2.raised THEN Caught(s2)
         ELSE LET s3 == execute_query(
                            [s2 EXCEPT !.act.loaded = @ \cup {"ea_tree"}], q[3]) IN
         IF s3.raised THEN Caught(s3)
         ELSE update_dashboard_stats(
                  [s3 EXCEPT !.act.loaded = @ \cup {"activity_tree"}], q[4])

\* connect_db that opens the new session and goes on holding the one it
\* held before.
CensusApp_connect_db_KeepsOld(s, portText, co, q) ==
    LET s1 == IF s.db # NoDb THEN close(s, s.db) ELSE s
        port == int(portText)
        s2 == IF port = ValueError THEN [s1 EXCEPT !.raised = TRUE]
              ELSE OracleDB_init(s1, co)
    IN IF s2.raised
       THEN [Caught(s2) EXCEPT !.status = "Connection Failed", !.connFailed = TRUE]
       ELSE refresh_all_data(
                Info([s2 EXCEPT !.db = IF s.db # NoDb THEN s.db ELSE s2.ret,
                                !.status = "Connected", !.connFailed = FALSE]), q)

\* CensusApp.connect_db
CensusApp_connect_db(s, portText, co, q) ==
    LET s1 == IF s.db # NoDb THEN close(s, s.db) ELSE s
        port == int(portText)
        s2 == IF port = ValueError THEN [s1 EXCEPT !.raised = TRUE]
              ELSE OracleDB_init(s1, co)
    IN IF s2.raised
       THEN [Caught(s2) EXCEPT !.status = "Connection Failed", !.connFailed = TRUE]
       ELSE refresh_all_data(
                Info([s2 EXCEPT !.db = s2.ret, !.status = "Connected",
                                !.connFailed = FALSE]), q)

\* A disconnect that closes the session and leaves the label as it was.
CensusApp_disconnect_db_KeepsLabel(s) ==
    IF s.db # NoDb THEN [close(s, s.db) EXCEPT !.db = NoDb] ELSE s

\* CensusApp.disconnect_db
CensusApp_disconnect_db(s) ==
    LET s1 == IF s.db # NoDb THEN [close(s, s.db) EXCEPT !.db = NoDb] ELSE s
    IN [s1 EXCEPT !.status = "Disconnected"]

\* The household form's required fields, in the order add_household checks.
RequiredHousehold == <<"ea_code", "structure_no", "household_no", "type_of_residence">>

\* add_household without the test of the required fields.
CensusApp_add_household_Unchecked(s, hh, eo, co, qo) ==
    IF s.db = NoDb THEN Warn(s)
    ELSE LET s1 == insert_household(s, hh, eo, co) IN
         IF s1.raised THEN Caught(s1)
         ELSE load_households(Info(s1), qo)

\* CensusApp.add_household; hh is the household form (text per field).
CensusApp_add_household(s, hh, eo, co, qo) ==
    IF s.db = NoDb THEN Warn(s)
    ELSE IF \E i \in 1..Len(RequiredHousehold) : hh[RequiredHousehold[i]] = <<>>
    THEN Warn(s)
    ELSE LET s1 == insert_household(s, hh, eo, co) IN
         IF s1.raised THEN Caught(s1)
         ELSE load_households(Info(s1), qo)

\* CensusApp.view_household_members; selected is what
\* household_tree.get_selected_row() returns.
CensusApp_view_household_members(s, selected, qo) ==
    IF selected = None THEN Warn(s)
    ELSE IF s.db = NoDb THEN Warn(s)
    ELSE load_into(s, "person_tree", qo)

\* value or None, of a text
or_None(t) == IF t = <<>> THEN None ELSE StrV(t)

\* CensusApp.insert_person: the form is read field by field; the first text
\* that does not coerce ends the handler with a warning.
CensusApp_insert_person(s, eo, co, io, qo) ==
    LET f == s.form IN
    IF s.db = NoDb THEN Warn(s)
    ELSE IF BadInt(f.line_no) \/ BadDate(f.date_of_birth) \/ BadInt(f.age_years)
    THEN Warn(s)
    ELSE LET person_data ==
                 [k \in {PersonVars[i] : i \in 1..Len(PersonVars)} |->
                     IF k = "date_of_birth" /\ f[k] # <<>> THEN strptime(f[k])
                     ELSE IF k \in {"line_no", "age_years"} /\ f[k] # <<>> THEN int(f[k])
                     ELSE or_None(f[k])]
             s1 == sp_insert_person(s, person_data, eo, co, io)
         IN IF s1.raised THEN Caught(s1)
            ELSE load_persons(
                     Info([s1 EXCEPT !.form.person_id = str_int(s1.ret)]), qo)

\* The text retrieve_person sets a form variable to.
shown_value(v) ==
    IF v.tag = "date" THEN strftime(v)
    ELSE IF v = None THEN <<>>
    ELSE str(v)

\* CensusApp.retrieve_person; row is what GET_PERSON_BY_ID finds.  Each
\* person variable is set from the row's key of the same name.
CensusApp_retrieve_person(s, qo, row) ==
    IF s.db = NoDb THEN Warn(s)
    ELSE IF s.form.person_id = <<>> THEN Warn(s)
    ELSE IF int(s.form.person_id) = ValueError THEN Caught(s)
    ELSE LET s1 == sp_get_person_by_id(s, qo, row) IN
         IF s1.raised THEN Caught(s1)
         ELSE IF s1.ret = None THEN Info(s1)
         ELSE [s1 EXCEPT !.form =
                  [k \in FormVars |->
                      IF k \in {PersonVars[i] : i \in 1..Len(PersonVars)}
                      THEN shown_value(get(s1.ret, k)) ELSE s.form[k]]]

\* CensusApp.update_person and CensusApp.delete_person: a "Not Implemented"
\* notice, nothing else.
CensusApp_update_person(s) == Info(s)
CensusApp_delete_person(s) == Info(s)

\* CensusApp.clear_activity_log: the confirmation comes first.
CensusApp_clear_activity_log(s, yes, eo, co, qo) ==
    IF ~yes THEN s
    ELSE IF s.db = NoDb THEN Warn(s)
    ELSE LET s1 == execute_non_query(s, "clear_activity_log", <<>>, eo, co) IN
         IF s1.raised THEN Caught(s1)
         ELSE load_activity_log(Info(s1), qo)

(***************************************************************************)
(* census_crud_ui.py: class App.                                           *)
(***************************************************************************)
\* App.connect_db: the new OracleDB is bound to self.db; the one held before
\* is neither closed nor kept.
App_connect_db(s, portText, co) ==
    LET port == int(portText)
        s1 == IF port = ValueError THEN [s EXCEPT !.raised = TRUE]
              ELSE OracleDB_init(s, co)
    IN IF s1.raised THEN [Caught(s1) EXCEPT !.connFailed = TRUE]
       ELSE Info([s1 EXCEPT !.db = s1.ret, !.connFailed = FALSE])

\* App._read_person_from_form: to_int and to_date give None for the empty
\* text and for text that does not parse.
to_int(t) == IF t = <<>> \/ int(t) = ValueError THEN None ELSE int(t)
to_date(t) == IF t = <<>> \/ strptime(t) = ValueError THEN None ELSE strptime(t)

read_person_from_form(f) ==
    [person_id |-> to_int(f.person_id),
     ea_code |-> or_None(f.ea_code),
     structure_no |-> or_None(f.structure_no),
     household_no |-> or_None(f.household_no),
     line_no |-> to_int(f.line_no),
     full_name |-> or_None(f.full_name),
     sex |-> or_None(f.sex),
     date_of_birth |-> to_date(f.date_of_birth),
     age_years |-> to_int(f.age_years),
     nationality |-> or_None(f.nationality),
     ethnicity |-> or_None(f.ethnicity),
     religion |-> or_None(f.religion),
     marital_status |-> or_None(f.marital_status)]

\* if not p.person_id: None and 0 are both false.
Falsy(v) == v = None \/ v = IntV(0)

\* App.on_insert
App_on_insert(s, eo, co, io) ==
    IF s.db = NoDb THEN Warn(s)
    ELSE LET p == read_person_from_form(s.form)
             s1 == sp_insert_person(s, p, eo, co, io)
         IN IF s1.raised THEN Caught(s1)
            ELSE Info([s1 EXCEPT !.form.person_id = str_int(s1.ret)])

\* data.get(key) or '' as on_retrieve sets it; for age_years,
\* str(data.get('age_years') or '').
get_or_empty(row, k) ==
    LET v == dict_get(row, k) IN
    IF v = None \/ v = IntV(0) \/ v = StrV(<<>>) THEN <<>> ELSE str(v)

\* The variables on_retrieve sets.
RetrievedVars ==
    {"full_name", "sex", "age_years", "ea_code", "structure_no", "household_no",
     "locality_code"}

\* App.on_retrieve; row is what GET_PERSON_BY_ID finds.
App_on_retrieve(s, qo, row) ==
    IF s.db = NoDb THEN Warn(s)
    ELSE IF s.form.person_id = <<>> THEN Warn(s)
    ELSE IF int(s.form.person_id) = ValueError THEN Caught(s)
    ELSE LET s1 == sp_get_person_by_id(s, qo, row) IN
         IF s1.raised THEN Caught(s1)
         ELSE IF s1.ret = None THEN s1
         ELSE [s1 EXCEPT !.form =
                  [k \in FormVars |->
                      IF k \in RetrievedVars THEN get_or_empty(s1.ret, k)
                      ELSE s.form[k]]]

\* App.on_view_log: the guard, fetch_activity_log, one log line per entry.
App_on_view_log(s, qo) ==
    IF s.db = NoDb THEN Warn(s)
    ELSE LET s1 == execute_query(s, qo) IN
         IF s1.raised THEN Caught(s1) ELSE s1

\* App.on_update
App_on_update(s, eo, co) ==
    IF s.db = NoDb THEN Warn(s)
    ELSE LET p == read_person_from_form(s.form) IN
         IF Falsy(p.person_id) THEN Warn(s)
         ELSE LET s1 == sp_update_person(s, p, eo, co) IN
              IF s1.raised THEN Caught(s1) ELSE Info(s1)

\* A delete that does not wait for the answer to its question.
App_on_delete_Unasked(s, yes, eo, co) ==
    IF s.db = NoDb THEN Warn(s)
    ELSE IF s.form.person_id = <<>> THEN Warn(s)
    ELSE IF int(s.form.person_id) = ValueError THEN Caught(s)
    ELSE LET s1 == sp_delete_person(s, int(s.form.person_id), eo, co)
         IN IF s1.raised THEN Caught(s1) ELSE Info(s1)

\* App.on_delete: int(pid) is evaluated inside the try.
App_on_delete(s, yes, eo, co) ==
    IF s.db = NoDb THEN Warn(s)
    ELSE IF s.form.person_id = <<>> THEN Warn(s)
    ELSE IF ~yes THEN s
    ELSE IF int(s.form.person_id) = ValueError THEN Caught(s)
    ELSE LET s1 == sp_delete_person(s, int(s.form.person_id), eo, co)
         IN IF s1.raised THEN Caught(s1) ELSE Info(s1)

(***************************************************************************)
(* Tabular view: class DataTreeview (census_app.py).                       *)
(*                                                                         *)
(* A row is a function from column names to cells (None, int or str        *)
(* values); a key may be absent, and keys the grid does not declare may be *)
(* present.                                                                *)
(***************************************************************************)
NoSelection == 0
NoFile == [exists |-> FALSE, text |-> <<>>]
NoDialog == [asked |-> FALSE, box |-> "none"]

UpperLetters ==
    <<"A", "B", "C", "D", "E", "F", "G", "H", "I", "J", "K", "L", "M",
      "N", "O", "P", "Q", "R", "S", "T", "U", "V", "W", "X", "Y", "Z">>
LowerLetters ==
    <<"a", "b", "c", "d", "e", "f", "g", "h", "i", "j", "k", "l", "m",
      "n", "o", "p", "q", "r", "s", "t", "u", "v", "w", "x", "y", "z">>

\* str.lower()
lower_ch(ch) ==
    IF \E i \in 1..26 : UpperLetters[i] = ch
    THEN LowerLetters[CHOOSE i \in 1..26 : UpperLetters[i] = ch]
    ELSE ch
lower(s) == [i \in 1..Len(s) |-> lower_ch(s[i])]

\* needle in hay
Contains(hay, needle) ==
    \E k \in 0..(Len(hay) - Len(needle)) :
        SubSeq(hay, k + 1, k + Len(needle)) = needle

\* The column lists the application gives its grids.
PersonColumns ==
    <<"person_id", "full_name", "sex", "age_years", "ea_code", "structure_no",
      "household_no", "line_no", "locality_name">>
EaColumns ==
    <<"ea_code", "ea_number", "locality_code", "ea_type", "region_code",
      "district_code">>
PopulationColumns ==
    <<"region_name", "district_name", "population", "male_count",
      "female_count", "avg_age">>
AgeColumns == <<"age_group", "count", "percentage">>
GenderColumns == <<"sex", "count", "avg_age", "min_age", "max_age">>

InitialColumns(w) ==
    CASE w = "person_tree" -> PersonColumns
      [] w = "ea_tree" -> EaColumns
      [] w = "report_tree" -> <<>>

ReportColumns(kind) ==
    CASE kind = "population_summary" -> PopulationColumns
      [] kind = "age_distribution" -> AgeColumns
      [] kind = "gender_stats" -> GenderColumns

Grid ==
    [columns |-> columns, data |-> data, search |-> search, tree |-> tree,
     selection |-> selection, oldTrees |-> oldTrees, file |-> file,
     dialog |-> NoDialog]

\* row_matches comparing the cell text as it is, not lower-cased.
row_matches_CaseSensitive(cols, row, search_term) ==
    \E i \in 1..Len(cols) : Contains(str(get(row, cols[i])), search_term)

\* The any(...) of _refresh_tree: the search term occurs in the lower-cased
\* str() of one declared column of the row.
row_matches(cols, row, search_term) ==
    \E i \in 1..Len(cols) : Contains(lower(str(get(row, cols[i]))), search_term)

RECURSIVE filter_rows(_, _, _)
filter_rows(cols, rows, search_term) ==
    IF rows = <<>> THEN <<>>
    ELSE (IF row_matches(cols, Head(rows), search_term)
          THEN <<Head(rows)>> ELSE <<>>)
         \o filter_rows(cols, Tail(rows), search_term)

\* The values of the keys the row has, the absent ones left out.
row_values_PresentKeys(cols, row) ==
    LET present == SelectSeq(cols, LAMBDA c : c \in DOMAIN row)
    IN [i \in 1..Len(present) |-> row[present[i]]]

\* values = [row.get(col, '') for col in self.columns]
row_values(cols, row) == [i \in 1..Len(cols) |-> get(row, cols[i])]

\* _refresh_tree that keeps the filtered rows as the row set.
refresh_tree_StoresFiltered(g) ==
    LET search_term == lower(g.search)
        filtered_data == IF search_term # <<>>
                         THEN filter_rows(g.columns, g.data, search_term)
                         ELSE g.data
    IN [g EXCEPT !.data = filtered_data,
                 !.tree = [i \in 1..Len(filtered_data) |->
                              row_values(g.columns, filtered_data[i])],
                 !.selection = NoSelection]

\* _refresh_tree that selects again the item that was selected, when the
\* tree still has it.
refresh_tree_KeepsSelection(g) ==
    LET search_term == lower(g.search)
        filtered_data == IF search_term # <<>>
                         THEN filter_rows(g.columns, g.data, search_term)
                         ELSE g.data
        items == [i \in 1..Len(filtered_data) |->
                     row_values(g.columns, filtered_data[i])]
        same == IF g.selection = NoSelection THEN {}
                ELSE {i \in 1..Len(items) : items[i] = g.tree[g.selection]}
    IN [g EXCEPT !.tree = items,
                 !.selection = IF same = {} THEN NoSelection
                               ELSE CHOOSE i \in same : \A k \in same : i <= k]

\* DataTreeview._refresh_tree: every item of the tree is deleted (which empties
\* the selection), then one item is inserted per row passing the filter.
refresh_tree(g) ==
    LET search_term == lower(g.search)
        filtered_data == IF search_term # <<>>
                         THEN filter_rows(g.columns, g.data, search_term)
                         ELSE g.data
    IN [g EXCEPT !.tree = [i \in 1..Len(filtered_data) |->
                              row_values(g.columns, filtered_data[i])],
                 !.selection = NoSelection]

\* DataTreeview.load_data that stores the rows and leaves the tree as it is.
load_data_NoRefresh(g, rows) == [g EXCEPT !.data = rows]

\* load_data that also empties the search text.
load_data_ResetsSearch(g, rows) ==
    refresh_tree([g EXCEPT !.data = rows, !.search = <<>>])

\* DataTreeview.load_data
load_data(g, rows) == refresh_tree([g EXCEPT !.data = rows])

\* DataTreeview._on_search: the write trace of search_var.
on_search(g) == refresh_tree(g)

\* DataTreeview._init_widgets called again after self.columns was assigned: a
\* new search_var, a new empty Treeview and self.data = []; the widgets made
\* by the call before are neither destroyed nor unpacked, and keep their items.
init_widgets(g) ==
    [g EXCEPT !.oldTrees = Append(@, g.tree),
              !.search = <<>>,
              !.tree = <<>>,
              !.selection = NoSelection,
              !.data = <<>>]

\* show_population_summary / show_age_distribution / show_gender_stats, from
\* the query's return on: columns, _init_widgets, load_data.
show_report(g, kind, rows) ==
    load_data(init_widgets([g EXCEPT !.columns = ReportColumns(kind)]), rows)

\* DataTreeview.get_selected_row: None without a selection, else the first
\* selected item's values, as the tree holds them (their text), keyed by the
\* column names.
get_selected_row(g) ==
    IF g.selection = NoSelection THEN None
    ELSE [c \in {g.columns[i] : i \in 1..Len(g.columns)} |->
             str(g.tree[g.selection][CHOOSE i \in 1..Len(g.columns) : g.columns[i] = c])]

(***************************************************************************)
(* Export: DataTreeview._export_csv, with csv.DictWriter as it writes under *)
(* the default dialect (QUOTE_MINIMAL) and newline=''.                      *)
(***************************************************************************)
\* The characters of each column name.
ColumnText ==
    [person_id |-> <<"p", "e", "r", "s", "o", "n", "_", "i", "d">>,
     full_name |-> <<"f", "u", "l", "l", "_", "n", "a", "m", "e">>,
     sex |-> <<"s", "e", "x">>,
     age_years |-> <<"a", "g", "e", "_", "y", "e", "a", "r", "s">>,
     ea_code |-> <<"e", "a", "_", "c", "o", "d", "e">>,
     structure_no |-> <<"s", "t", "r", "u", "c", "t", "u", "r", "e", "_", "n", "o">>,
     household_no |-> <<"h", "o", "u", "s", "e", "h", "o", "l", "d", "_", "n", "o">>,
     line_no |-> <<"l", "i", "n", "e", "_", "n", "o">>,
     locality_name |-> <<"l", "o", "c", "a", "l", "i", "t", "y", "_", "n", "a", "m", "e">>,
     ea_number |-> <<"e", "a", "_", "n", "u", "m", "b", "e", "r">>,
     locality_code |-> <<"l", "o", "c", "a", "l", "i", "t", "y", "_", "c", "o", "d", "e">>,
     ea_type |-> <<"e", "a", "_", "t", "y", "p", "e">>,
     region_code |-> <<"r", "e", "g", "i", "o", "n", "_", "c", "o", "d", "e">>,
     district_code |-> <<"d", "i", "s", "t", "r", "i", "c", "t", "_", "c", "o", "d", "e">>,
     region_name |-> <<"r", "e", "g", "i", "o", "n", "_", "n", "a", "m", "e">>,
     district_name |-> <<"d", "i", "s", "t", "r", "i", "c", "t", "_", "n", "a", "m", "e">>,
     population |-> <<"p", "o", "p", "u", "l", "a", "t", "i", "o", "n">>,
     male_count |-> <<"m", "a", "l", "e", "_", "c", "o", "u", "n", "t">>,
     female_count |-> <<"f", "e", "m", "a", "l", "e", "_", "c", "o", "u", "n", "t">>,
     avg_age |-> <<"a", "v", "g", "_", "a", "g", "e">>,
     age_group |-> <<"a", "g", "e", "_", "g", "r", "o", "u", "p">>,
     count |-> <<"c", "o", "u", "n", "t">>,
     percentage |-> <<"p", "e", "r", "c", "e", "n", "t", "a", "g", "e">>,
     min_age |-> <<"m", "i", "n", "_", "a", "g", "e">>,
     max_age |-> <<"m", "a", "x", "_", "a", "g", "e">>]

\* The text csv writes for a value: nothing for None, str() otherwise.
csv_text(v) == IF v.tag = "None" THEN <<>> ELSE str(v)

needs_quote(field) ==
    \E i \in 1..Len(field) : field[i] \in {",", "\"", "\r", "\n"}

RECURSIVE double_quotes(_)
double_quotes(field) ==
    IF field = <<>> THEN <<>>
    ELSE (IF Head(field) = "\"" THEN <<"\"", "\"">> ELSE <<Head(field)>>)
         \o double_quotes(Tail(field))

\* One field as written; a record of one empty field is written quoted.
csv_field(field, lone) ==
    IF needs_quote(field) \/ (lone /\ field = <<>>)
    THEN <<"\"">> \o double_quotes(field) \o <<"\"">>
    ELSE field

RECURSIVE join_fields(_, _)
join_fields(fields, lone) ==
    IF fields = <<>> THEN <<>>
    ELSE IF Len(fields) = 1 THEN csv_field(fields[1], lone)
    ELSE csv_field(fields[1], lone) \o <<",">> \o join_fields(Tail(fields), lone)

\* csv writer.writerow
writerow(fields) == join_fields(fields, Len(fields) = 1) \o <<"\r", "\n">>

\* DictWriter.writeheader
writeheader(cols) == writerow([i \in 1..Len(cols) |-> ColumnText[cols[i]]])

\* The line of one row that writes the keys the row has and skips the others.
export_row_PresentKeys(cols, row) ==
    LET present == SelectSeq(cols, LAMBDA c : c \in DOMAIN row)
    IN writerow([i \in 1..Len(present) |-> csv_text(row[present[i]])])

\* filtered_row = {col: row.get(col, '') ...}; writer.writerow(filtered_row)
export_row(cols, row) ==
    writerow([i \in 1..Len(cols) |-> csv_text(get(row, cols[i]))])

RECURSIVE export_rows(_, _)
export_rows(cols, rows) ==
    IF rows = <<>> THEN <<>>
    ELSE export_row(cols, Head(rows)) \o export_rows(cols, Tail(rows))

\* _export_csv without the test for an empty row set.
export_csv_NoEmptyTest(g, filename, io, done) ==
    IF filename = ""
    THEN [g EXCEPT !.dialog = [asked |-> TRUE, box |-> "none"]]
    ELSE IF io # "ok"
    THEN [g EXCEPT !.dialog = [asked |-> TRUE, box |-> "error"]]
    ELSE [g EXCEPT !.dialog = [asked |-> TRUE, box |-> "info"],
                   !.file = [exists |-> TRUE,
                             text |-> writeheader(g.columns)
                                      \o export_rows(g.columns, g.data)]]

\* _export_csv writing the rows that pass the filter instead of self.data.
export_csv_VisibleRows(g, filename, io, done) ==
    LET visible == IF lower(g.search) # <<>>
                   THEN filter_rows(g.columns, g.data, lower(g.search))
                   ELSE g.data
    IN IF g.data = <<>>
       THEN [g EXCEPT !.dialog = [asked |-> FALSE, box |-> "warning"]]
       ELSE IF filename = ""
       THEN [g EXCEPT !.dialog = [asked |-> TRUE, box |-> "none"]]
       ELSE IF io # "ok"
       THEN [g EXCEPT !.dialog = [asked |-> TRUE, box |-> "error"]]
       ELSE [g EXCEPT !.dialog = [asked |-> TRUE, box |-> "info"],
                      !.file = [exists |-> TRUE,
                                text |-> writeheader(g.columns)
                                         \o export_rows(g.columns, visible)]]

\* DataTreeview._export_csv.  filename is what the save dialog returns ("" on
\* cancel); io is how the write goes: "ok", "open_error" (open raises), or
\* "write_error" (a write raises after the header and `done` rows).
export_csv(g, filename, io, done) ==
    IF g.data = <<>>
    THEN [g EXCEPT !.dialog = [asked |-> FALSE, box |-> "warning"]]
    ELSE IF filename = ""
    THEN [g EXCEPT !.dialog = [asked |-> TRUE, box |-> "none"]]
    ELSE IF io = "open_error"
    THEN [g EXCEPT !.dialog = [asked |-> TRUE, box |-> "error"]]
    ELSE IF io = "write_error"
    THEN [g EXCEPT !.dialog = [asked |-> TRUE, box |-> "error"],
                   !.file = [exists |-> TRUE,
                             text |-> writeheader(g.columns)
                                      \o export_rows(g.columns,
                                                     SubSeq(g.data, 1, done))]]
    ELSE [g EXCEPT !.dialog = [asked |-> TRUE, box |-> "info"],
                   !.file = [exists |-> TRUE,
                             text |-> writeheader(g.columns)
                                      \o export_rows(g.columns, g.data)]]


(***************************************************************************)
(* OracleDB.execute_query: the rows of the cursor as dictionaries.         *)
(***************************************************************************)
\* The key a column name's text is: the grid's column of that spelling.
\* Texts that spell no column of the grids are not told apart.
NameOf(text) ==
    IF \E c \in DOMAIN ColumnText : ColumnText[c] = text
    THEN CHOOSE c \in DOMAIN ColumnText : ColumnText[c] = text
    ELSE "(another name)"

\* The rows keyed by the column names as the cursor reports them.
fetch_dicts_NamesAsReported(description, fetched) ==
    LET cols == [i \in 1..Len(description) |-> NameOf(description[i])]
    IN [j \in 1..Len(fetched) |->
           [c \in {cols[i] : i \in 1..Len(cols)} |->
               fetched[j][CHOOSE i \in 1..Len(cols) :
                             cols[i] = c /\ \A k \in (i + 1)..Len(cols) : cols[k] # c]]]

\* cols = [d[0].lower() for d in cur.description];
\* return [{cols[i]: r[i] for i in range(len(cols))} for r in cur]
\* Of two columns of one name the later one's value stays in the dictionary.
fetch_dicts(description, fetched) ==
    LET cols == [i \in 1..Len(description) |-> NameOf(lower(description[i]))]
    IN [j \in 1..Len(fetched) |->
           [c \in {cols[i] : i \in 1..Len(cols)} |->
               fetched[j][CHOOSE i \in 1..Len(cols) :
                             cols[i] = c /\ \A k \in (i + 1)..Len(cols) : cols[k] # c]]]

\* OracleDB.sp_search_persons_by_locality (census_crud_ui): callproc
\* SEARCH_PERSONS_BY_LOCALITY, then the list built by iterating the OUT
\* cursor to its end; cur is the cursor the procedure opens.
sp_search_persons_by_locality(s, out, cur) ==
    LET s1 == execute_query(s, out)
        got == iterate(OpenCursor(cur.fetched))
        rows == fetch_dicts(cur.description, got.rows)
    IN IF s1.raised THEN s1
       ELSE [s1 EXCEPT !.ret = rows, !.act.cursor = got.cursor,
                       !.act.returned = rows]

\* App.on_search_locality: the guards, the call, one log line for the count
\* and one per row of the list returned.
App_on_search_locality(s, qo, cur) ==
    IF s.db = NoDb THEN Warn(s)
    ELSE IF s.form.locality_code = <<>> THEN Warn(s)
    ELSE LET s1 == sp_search_persons_by_locality(s, qo, cur) IN
         IF s1.raised THEN Caught(s1) ELSE s1

(***************************************************************************)
(* Rows the backend may return.                                            *)
(***************************************************************************)
\* cursor.description of a person query: the names as the backend reports
\* them (upper case for plain identifiers, as written for quoted aliases,
\* one name twice when the select list repeats a column).
Descriptions ==
    {<<<<"P", "E", "R", "S", "O", "N", "_", "I", "D">>,
       <<"F", "U", "L", "L", "_", "N", "A", "M", "E">>,
       <<"S", "E", "X">>>>,
     <<<<"P", "E", "R", "S", "O", "N", "_", "I", "D">>,
       <<"F", "u", "l", "l", "_", "N", "a", "m", "e">>,
       <<"s", "e", "x">>>>,
     <<<<"S", "E", "X">>,
       <<"F", "U", "L", "L", "_", "N", "A", "M", "E">>,
       <<"S", "E", "X">>>>}

\* The tuples a cursor of three columns may yield.
FetchedTuples ==
    {<<IntV(1), StrV(<<"A", "m", "a">>), StrV(<<"F">>)>>,
     <<IntV(3), None, StrV(<<"f">>)>>}

\* No cursor: the execute raised, or was never reached.
NoCursor == [description |-> <<>>, fetched |-> <<>>]

\* A cursor after execute: its description and the tuples it will yield.
Cursors ==
    {[description |-> d, fetched |-> f] :
        d \in Descriptions, f \in UNION {[1..n -> FetchedTuples] : n \in 0..MaxRows}}

PersonRows ==
    {[person_id |-> IntV(1), full_name |-> StrV(<<"A", "m", "a">>), sex |-> StrV(<<"F">>),
      age_years |-> IntV(5), ea_code |-> StrV(<<"E", "1">>),
      structure_no |-> StrV(<<"1">>), household_no |-> StrV(<<"1">>),
      line_no |-> IntV(1), locality_code |-> StrV(<<"L", "9">>),
      locality_name |-> StrV(<<"T", "e", "m", "a">>)],
     [person_id |-> IntV(2), full_name |-> StrV(<<"K", "o", "j", "o">>), sex |-> StrV(<<"M">>),
      age_years |-> IntV(34), ea_code |-> StrV(<<"E", "1">>),
      structure_no |-> StrV(<<"1">>), household_no |-> StrV(<<"1">>),
      line_no |-> IntV(2), locality_code |-> None, locality_name |-> None],
     [person_id |-> IntV(3), full_name |-> None, sex |-> StrV(<<"f">>),
      age_years |-> None, ea_code |-> StrV(<<"E", "2">>),
      structure_no |-> StrV(<<"1">>), household_no |-> StrV(<<"2">>),
      line_no |-> None, locality_code |-> None, locality_name |-> None]}

\* SELECT * FROM enumeration_area: the table need not have every column the
\* grid declares.
EaRows ==
    {[ea_code |-> StrV(<<"E", "1">>), ea_number |-> IntV(1),
      locality_code |-> StrV(<<"L", "9">>), ea_type |-> StrV(<<"U", "r", "b", "a", "n">>)],
     [ea_code |-> StrV(<<"E", "2">>), ea_number |-> IntV(2),
      locality_code |-> None, ea_type |-> None],
     [ea_code |-> StrV(<<"E", ",", "3">>), ea_number |-> IntV(3),
      locality_code |-> StrV(<<"a", "\"", "b">>), ea_type |-> StrV(<<>>),
      region_code |-> StrV(<<"R">>), district_code |-> StrV(<<"D">>),
      remarks |-> StrV(<<"x">>)],
     [ea_code |-> StrV(<<"E", "4">>), ea_number |-> IntV(4),
      locality_code |-> StrV(<<"L", "9">>), ea_type |-> StrV(<<"x", "\n", "y">>),
      region_code |-> None, district_code |-> StrV(<<"D">>)]}

RowPool(w) == IF w = "person_tree" THEN PersonRows ELSE EaRows

RowSets(w) == UNION {[1..n -> RowPool(w)] : n \in 0..MaxRows}

ReportKinds == {"population_summary", "age_distribution", "gender_stats"}

ReportResults(kind) ==
    CASE kind = "population_summary" ->
           {<<>>,
            <<[region_name |-> StrV(<<"N", "o", "r", "t", "h">>), district_name |-> StrV(<<"T", "o", "l", "o", "n">>),
               population |-> IntV(3), male_count |-> IntV(1),
               female_count |-> IntV(2), avg_age |-> None]>>}
      [] kind = "age_distribution" ->
           {<<[age_group |-> StrV(<<"0", "-", "4">>), count |-> IntV(1), percentage |-> IntV(50)],
              [age_group |-> StrV(<<"6", "5", "+">>), count |-> IntV(1), percentage |-> IntV(50)]>>}
      [] kind = "gender_stats" ->
           {<<[sex |-> StrV(<<"F">>), count |-> IntV(2), avg_age |-> IntV(20),
               min_age |-> IntV(5), max_age |-> IntV(34)],
              [sex |-> StrV(<<"M">>), count |-> IntV(1), avg_age |-> IntV(34),
               min_age |-> IntV(34), max_age |-> IntV(34)]>>,
            <<[sex |-> StrV(<<"f">>), count |-> IntV(1), avg_age |-> IntV(5),
               min_age |-> IntV(5), max_age |-> IntV(5)]>>}

SearchTexts == {<<>>, <<"f">>, <<"M">>, <<"3">>, <<"n", "o", "n", "e">>, <<"L", "9">>}

(***************************************************************************)
(* Actions of the grid.                                                    *)
(***************************************************************************)
\* The grid's fields after one of its methods left it as g.
GridSets(g, op, arg) ==
    /\ columns' = g.columns
    /\ data' = g.data
    /\ search' = g.search
    /\ tree' = g.tree
    /\ selection' = g.selection
    /\ oldTrees' = g.oldTrees
    /\ file' = g.file
    /\ dialog' = g.dialog
    /\ last' = [op |-> op, arg |-> arg,
                selected |-> IF selection = NoSelection THEN <<>>
                             ELSE <<tree[selection]>>]
    /\ UNCHANGED which

GridBecomes(g, op, arg) == GridSets(g, op, arg) /\ UNCHANGED gwVars

\* A handler loads a query's rows into a grid of fixed columns.
LoadData ==
    /\ which # "report_tree"
    /\ \E rows \in RowSets(which) :
          GridBecomes(load_data(Grid, rows), "load_data", rows)

\* A report button: the report grid is given the report's columns and rows.
ShowReport ==
    /\ which = "report_tree"
    /\ Len(oldTrees) < MaxReconfig
    /\ \E kind \in ReportKinds : \E rows \in ReportResults(kind) :
          GridBecomes(show_report(Grid, kind, rows), "show_report", rows)

\* The user edits the search entry: search_var is written, its trace runs.
Search ==
    \E t \in SearchTexts :
        GridBecomes(on_search([Grid EXCEPT !.search = t]), "search", t)

\* The user edits the search entry of an earlier configuration: that entry's
\* variable is written and its trace runs _on_search, which reads search_var.
SearchOld ==
    /\ oldTrees # <<>>
    /\ GridBecomes(on_search(Grid), "search_old", <<>>)

\* The Export CSV button.
ExportCsv ==
    \E filename \in {"", "out.csv"} :
    \E io \in {"ok", "open_error", "write_error"} :
    \E done \in 0..(IF Len(data) = 0 THEN 0 ELSE Len(data) - 1) :
        GridBecomes(export_csv(Grid, filename, io, done), "export", <<>>)

\* The user clicks an item of the tree.
Select ==
    \E i \in 1..Len(tree) :
        GridBecomes([Grid EXCEPT !.selection = i], "select", <<>>)


(***************************************************************************)
(* Inputs.                                                                 *)
(***************************************************************************)
\* tables of show_db_stats
StatsTables ==
    <<"region", "district", "subdistrict", "locality", "enumeration_area",
      "structure", "household", "person", "household_roster">>
ValidPort == <<"1", "5", "2", "1">>
PortTexts == {ValidPort, <<"1", "5", "x">>}
IdTexts == {<<>>, <<"7">>, <<"0">>, <<"x">>}
NumTexts == {<<>>, <<"1", "2">>, <<"x">>}
DateTexts ==
    {<<>>,
     <<"2", "0", "0", "0", "-", "0", "1", "-", "3", "1">>,
     <<"3", "1", "/", "0", "1", "/", "2", "0", "0", "0">>}
FieldTexts(k) ==
    CASE k = "person_id" -> IdTexts
      [] k = "date_of_birth" -> DateTexts
      [] OTHER -> NumTexts
FormFields == {"person_id", "line_no", "date_of_birth", "age_years"}
\* The household form: every required field filled, one of them left empty,
\* or all of them empty.
HouseholdForms ==
    {hh \in [{"ea_code", "structure_no", "household_no", "type_of_residence"}
                -> {<<>>, <<"1">>}] :
        Cardinality({k \in DOMAIN hh : hh[k] = <<>>}) \in {0, 1, 4}}
\* The outcomes of up to four queries run in a row, the first error ending
\* the run: what follows an error is never consulted.
QueryRuns(EO) ==
    {q \in [1..4 -> EO] : \A i \in 1..3 : q[i] = "error" => q[i + 1] = "error"}

(***************************************************************************)
(* Actions: one per user action.                                           *)
(***************************************************************************)
\* The application's fields after a handler ran to its end in state s.
GatewayBecomes(s) ==
    /\ db' = s.db
    /\ conns' = s.conns
    /\ committed' = s.committed
    /\ failed' = s.failed
    /\ callNo' = s.callNo
    /\ mut' = s.mut
    /\ act' = s.act
    /\ status' = s.status
    /\ connFailed' = s.connFailed
    /\ form' = s.form
    /\ UNCHANGED app

Becomes(s) == GatewayBecomes(s) /\ UNCHANGED gridVars

Start(name) == Enter(St, name, FormBad(form))
\* A handler that reads, besides the person form, the input given.
StartWith(name, input) == [Start(name) EXCEPT !.act.input = input]

\* The household get_selected_row() returns when one is selected.
SelectedHousehold ==
    [ea_code |-> StrV(<<"E", "1">>), structure_no |-> StrV(<<"1">>),
     household_no |-> StrV(<<"1">>)]

\* A person as the backend stores it, person_id apart.
SamplePerson ==
    [ea_code |-> StrV(<<"E", "1">>), structure_no |-> StrV(<<"1">>),
     household_no |-> StrV(<<"1">>), line_no |-> IntV(1),
     full_name |-> StrV(<<"A", "m", "a">>), sex |-> StrV(<<"F">>),
     date_of_birth |-> DateV(2000, 1, 31), age_years |-> IntV(0),
     nationality |-> None, ethnicity |-> None, religion |-> None,
     marital_status |-> None, locality_code |-> StrV(<<"L", "9">>)]

\* What GET_PERSON_BY_ID may find for the id typed: nothing, or a stored
\* person under that id.
WithId(person, id) ==
    [k \in DOMAIN person \cup {"person_id"} |->
        IF k = "person_id" THEN IntV(id) ELSE person[k]]
FoundRows(PERSONS, idText) ==
    {None} \cup (IF int(idText) = ValueError THEN {}
                 ELSE {WithId(person, int(idText).i) : person \in PERSONS})

CensusAppConnect(PT, CO, EO) ==
    /\ app = "census_app"
    /\ \E portText \in PT, co \in CO, q \in QueryRuns(EO) :
          /\ (int(portText) # ValueError /\ co = "ok") => Len(conns) < MaxConns
          /\ Becomes(CensusApp_connect_db(Start("connect_db"), portText, co, q))

CensusAppDisconnect ==
    /\ app = "census_app"
    /\ Becomes(CensusApp_disconnect_db(Start("disconnect_db")))

CensusAppRefreshAll(EO) ==
    /\ app = "census_app"
    /\ \E q \in QueryRuns(EO) :
          Becomes(refresh_all_data(Start("refresh_all_data"), q))

\* The user picks a region in the geography tab's combobox.
CensusAppRegionSelected(EO) ==
    /\ app = "census_app"
    /\ \E region_code \in {<<>>, <<"R", "1">>}, qo \in EO :
          Becomes(CensusApp_on_region_selected(Start("on_region_selected"),
                                               region_code, qo))

\* Tools > Database Statistics: the nine counts all succeed, all fail, or
\* only the first or only the last fails.
CensusAppShowDbStats(EO) ==
    /\ app = "census_app"
    /\ \E q \in [1..Len(StatsTables) -> EO] :
          /\ \/ \A i \in DOMAIN q : q[i] = q[1]
             \/ \A i, j \in 2..Len(q) : q[i] = q[j]
             \/ \A i, j \in 1..(Len(q) - 1) : q[i] = q[j]
          /\ Becomes(CensusApp_show_db_stats(Start("show_db_stats"), q))

CensusAppLoadHouseholds(EO) ==
    /\ app = "census_app"
    /\ \E qo \in EO :
          Becomes(load_households(Start("load_households"), qo))

\* CensusApp.load_persons: the connection guard, get_persons, and
\* person_tree.load_data of the dictionaries execute_query returns.
CensusAppLoadPersons(EO) ==
    /\ app = "census_app"
    /\ which = "person_tree"
    /\ \E qo \in EO :
          LET s == load_persons(Start("load_persons"), qo)
          IN /\ GatewayBecomes(s)
             /\ IF "person_tree" \in s.act.loaded
                THEN \E cur \in Cursors :
                        LET persons == fetch_dicts(cur.description, cur.fetched)
                        IN GridSets(load_data(Grid, persons), "load_persons", cur)
                ELSE GridSets(Grid, "load_persons", NoCursor)

\* A report button of census_app: the handler, and on the query's return the
\* report grid given the report's columns and rows.
CensusAppShowReport(EO) ==
    /\ app = "census_app"
    /\ which = "report_tree"
    /\ Len(oldTrees) < MaxReconfig
    /\ \E qo \in EO :
          LET s == CensusApp_show_report(Start("show_report"), qo)
          IN /\ GatewayBecomes(s)
             /\ IF "report_tree" \in s.act.loaded
                THEN \E kind \in ReportKinds : \E rows \in ReportResults(kind) :
                        GridSets(show_report(Grid, kind, rows), "show_report", rows)
                ELSE GridSets(Grid, "show_report", <<>>)

\* Admin > Refresh Log of census_app.
CensusAppLoadLog(EO) ==
    /\ app = "census_app"
    /\ \E qo \in EO :
          Becomes(load_activity_log(Start("load_activity_log"), qo))

\* View Log of census_crud_ui.
AppViewLog(EO) ==
    /\ app = "census_crud_ui"
    /\ \E qo \in EO : Becomes(App_on_view_log(Start("view_log"), qo))

CensusAppAddHousehold(EO, CO) ==
    /\ app = "census_app"
    /\ callNo < MaxCalls
    /\ \E hh \in HouseholdForms, eo \in EO, co \in CO, qo \in EO :
          Becomes(CensusApp_add_household(StartWith("add_household", hh),
                                          hh, eo, co, qo))

CensusAppViewMembers(EO) ==
    /\ app = "census_app"
    /\ \E selected \in {None, SelectedHousehold}, qo \in EO :
          Becomes(CensusApp_view_household_members(
                      StartWith("view_household_members", selected), selected, qo))

CensusAppRetrieve(EO, PERSONS) ==
    /\ app = "census_app"
    /\ \E qo \in EO, row \in FoundRows(PERSONS, form.person_id) :
          Becomes(CensusApp_retrieve_person(Start("retrieve_person"), qo, row))

CensusAppInsertPerson(EO, CO, IO) ==
    /\ app = "census_app"
    /\ callNo < MaxCalls
    /\ \E eo \in EO, co \in CO, io \in IO, qo \in EO :
          Becomes(CensusApp_insert_person(Start("insert_person"), eo, co, io, qo))

CensusAppUpdatePerson ==
    /\ app = "census_app"
    /\ Becomes(CensusApp_update_person(Start("update_person")))

CensusAppDeletePerson ==
    /\ app = "census_app"
    /\ Becomes(CensusApp_delete_person(Start("delete_person")))

CensusAppClearLog(EO, CO) ==
    /\ app = "census_app"
    /\ callNo < MaxCalls
    /\ \E yes \in BOOLEAN, eo \in EO, co \in CO, qo \in EO :
          Becomes(CensusApp_clear_activity_log(
                      StartWith("clear_activity_log", yes), yes, eo, co, qo))

AppConnect(PT, CO) ==
    /\ app = "census_crud_ui"
    /\ \E portText \in PT, co \in CO :
          /\ (int(portText) # ValueError /\ co = "ok") => Len(conns) < MaxConns
          /\ Becomes(App_connect_db(Start("connect_db"), portText, co))

AppInsert(EO, CO, IO) ==
    /\ app = "census_crud_ui"
    /\ callNo < MaxCalls
    /\ \E eo \in EO, co \in CO, io \in IO :
          Becomes(App_on_insert(Start("insert_person"), eo, co, io))

AppRetrieve(EO, PERSONS) ==
    /\ app = "census_crud_ui"
    /\ \E qo \in EO, row \in FoundRows(PERSONS, form.person_id) :
          Becomes(App_on_retrieve(Start("retrieve_person"), qo, row))

AppUpdate(EO, CO) ==
    /\ app = "census_crud_ui"
    /\ callNo < MaxCalls
    /\ \E eo \in EO, co \in CO :
          Becomes(App_on_update(Start("update_person"), eo, co))

AppDelete(EO, CO) ==
    /\ app = "census_crud_ui"
    /\ callNo < MaxCalls
    /\ \E yes \in BOOLEAN, eo \in EO, co \in CO :
          Becomes(App_on_delete(StartWith("delete_person", yes), yes, eo, co))

AppSearchLocality(EO) ==
    /\ app = "census_crud_ui"
    /\ \E qo \in EO, cur \in Cursors :
          Becomes(App_on_search_locality(Start("search_locality"), qo, cur))

\* The user types into the locality entry of census_crud_ui.
TypeLocality ==
    /\ app = "census_crud_ui"
    /\ \E t \in {<<>>, <<"L", "9">>} :
          /\ form.locality_code # t
          /\ form' = [form EXCEPT !.locality_code = t]
    /\ act' = NoAct("type")
    /\ UNCHANGED <<app, db, conns, committed, failed, callNo, mut,
                   status, connFailed, gridVars>>

\* The user types into one entry of the person form.  act, the record of the
\* last user action, starts afresh.
TypeField ==
    \E k \in FormFields : \E t \in FieldTexts(k) :
        /\ form[k] # t
        /\ form' = [form EXCEPT ![k] = t]
        /\ act' = NoAct("type")
        /\ UNCHANGED <<app, db, conns, committed, failed, callNo, mut,
                       status, connFailed, gridVars>>

\* Person forms whose every text coerces: person_id left empty, each other
\* field empty or filled.
PersonForms ==
    {[k \in FormVars |->
         CASE k = "line_no" -> ln
           [] k = "age_years" -> age
           [] k = "date_of_birth" -> dob
           [] k = "full_name" -> name
           [] k = "marital_status" -> ms
           [] OTHER -> <<>>] :
       ln \in {<<>>, <<"1", "2">>},
       age \in {<<>>, <<"0">>, <<"1", "2">>},
       dob \in {<<>>, <<"2", "0", "0", "0", "-", "0", "1", "-", "3", "1">>},
       name \in {<<>>, <<"A", "m", "a">>},
       ms \in {<<>>, <<"S">>}}

\* The user fills in the person form.
FillForm ==
    \E f \in PersonForms :
        /\ form # f
        /\ form' = f
        /\ act' = NoAct("type")
        /\ UNCHANGED <<app, db, conns, committed, failed, callNo, mut,
                       status, connFailed, gridVars>>

\* The row of a backend that gives back the person as INSERT_PERSON received
\* it: the parameters sent, keyed by their names.
EchoRow(params) == [k \in {InsertParams[i] : i \in 1..Len(InsertParams)} |->
                      params[CHOOSE i \in 1..Len(InsertParams) : InsertParams[i] = k]]

\* The persons such a backend holds under the id of the insert just made.
EchoPersons ==
    IF act.name = "insert_person" /\ mut.result = "ok" /\ act.calls > 0
    THEN {EchoRow(act.args)} ELSE {}

\* The interpreter finalizes an OracleDB no variable refers to any more; its
\* connection is then closed.  When this happens is not the program's choice.
Finalize ==
    \E c \in 1..Len(conns) :
        /\ c # db
        /\ conns[c].state = "open"
        /\ conns' = [conns EXCEPT ![c] = [state |-> "closed", txn |-> {}]]
        /\ UNCHANGED <<app, db, committed, failed, callNo, mut, act, status,
                       connFailed, form, gridVars>>

\* The state after construction: CensusApp.__init__ / App.__init__ and, for
\* a grid, DataTreeview.__init__.
AppStart ==
    /\ db = NoDb
    /\ conns = <<>>
    /\ committed = {}
    /\ failed = {}
    /\ callNo = 0
    /\ mut = NoCall
    /\ act = NoAct("start")
    /\ status = "Not Connected"
    /\ connFailed = FALSE
    /\ form = [k \in FormVars |-> <<>>]

GridStart(w) ==
    /\ which = w
    /\ columns = InitialColumns(w)
    /\ data = <<>>
    /\ search = <<>>
    /\ tree = <<>>
    /\ selection = NoSelection
    /\ oldTrees = <<>>
    /\ file = NoFile
    /\ dialog = NoDialog
    /\ last = [op |-> "init", arg |-> <<>>, selected |-> <<>>]

InitGateway ==
    /\ app \in {"census_app", "census_crud_ui"}
    /\ AppStart
    /\ GridStart("person_tree")

\* The gateway under every driver outcome; the person form stays as typed
\* before the run.
NextGateway ==
    \/ CensusAppConnect(PortTexts, ConnectOutcomes, ExecOutcomes)
    \/ CensusAppDisconnect
    \/ CensusAppRefreshAll(ExecOutcomes)
    \/ CensusAppLoadHouseholds(ExecOutcomes)
    \/ CensusAppAddHousehold(ExecOutcomes, CommitOutcomes)
    \/ CensusAppViewMembers(ExecOutcomes)
    \/ CensusAppRetrieve(ExecOutcomes, {SamplePerson})
    \/ CensusAppInsertPerson(ExecOutcomes, CommitOutcomes, IdOutcomes)
    \/ CensusAppUpdatePerson
    \/ CensusAppDeletePerson
    \/ CensusAppClearLog(ExecOutcomes, CommitOutcomes)
    \/ AppConnect(PortTexts, ConnectOutcomes)
    \/ AppInsert(ExecOutcomes, CommitOutcomes, IdOutcomes)
    \/ AppRetrieve(ExecOutcomes, {SamplePerson})
    \/ AppUpdate(ExecOutcomes, CommitOutcomes)
    \/ AppDelete(ExecOutcomes, CommitOutcomes)
    \/ Finalize

SpecGateway == InitGateway /\ [][NextGateway]_vars

\* The person form under every text typed, against a backend that accepts
\* every call.
NextForms ==
    \/ TypeField
    \/ CensusAppConnect({ValidPort}, {"ok"}, {"ok"})
    \/ CensusAppDisconnect
    \/ CensusAppInsertPerson({"ok"}, {"ok"}, {"number"})
    \/ CensusAppUpdatePerson
    \/ CensusAppDeletePerson
    \/ AppConnect({ValidPort}, {"ok"})
    \/ AppInsert({"ok"}, {"ok"}, {"number"})
    \/ AppUpdate({"ok"}, {"ok"})
    \/ AppDelete({"ok"}, {"ok"})

SpecForms == InitGateway /\ [][NextForms]_vars

\* The record mapper: forms that coerce, a backend that accepts every call
\* and returns on Retrieve the person the insert before it sent.
NextMapper ==
    \/ FillForm
    \/ CensusAppConnect({ValidPort}, {"ok"}, {"ok"})
    \/ AppConnect({ValidPort}, {"ok"})
    \/ CensusAppInsertPerson({"ok"}, {"ok"}, {"number"})
    \/ AppInsert({"ok"}, {"ok"}, {"number"})
    \/ CensusAppRetrieve({"ok"}, EchoPersons)
    \/ AppRetrieve({"ok"}, EchoPersons)

SpecMapper == InitGateway /\ [][NextMapper]_vars

\* The grids alone: rows arrive as the queries return them.
InitGrid ==
    /\ app = "census_app"
    /\ AppStart
    /\ \E w \in {"person_tree", "ea_tree", "report_tree"} : GridStart(w)

NextGrid == LoadData \/ ShowReport \/ Search \/ SearchOld \/ Select

SpecGrid == InitGrid /\ [][NextGrid]_vars

\* Every handler that needs the backend, with and without a session held,
\* beside the persons grid or the report grid.
InitGuard ==
    /\ app \in {"census_app", "census_crud_ui"}
    /\ AppStart
    /\ \E w \in {"person_tree", "report_tree"} : GridStart(w)

NextGuard ==
    \/ CensusAppConnect({ValidPort}, {"ok"}, {"ok"})
    \/ CensusAppDisconnect
    \/ CensusAppRefreshAll({"ok"})
    \/ CensusAppLoadHouseholds({"ok"})
    \/ CensusAppLoadPersons({"ok"})
    \/ CensusAppLoadLog({"ok"})
    \/ CensusAppAddHousehold({"ok"}, {"ok"})
    \/ CensusAppViewMembers({"ok"})
    \/ CensusAppInsertPerson({"ok"}, {"ok"}, {"number"})
    \/ CensusAppRetrieve({"ok"}, {SamplePerson})
    \/ CensusAppShowReport({"ok"})
    \/ CensusAppClearLog({"ok"}, {"ok"})
    \/ CensusAppRegionSelected({"ok"})
    \/ CensusAppShowDbStats({"ok"})
    \/ AppConnect({ValidPort}, ConnectOutcomes)
    \/ AppInsert({"ok"}, {"ok"}, {"number"})
    \/ AppRetrieve({"ok"}, {SamplePerson})
    \/ AppUpdate({"ok"}, {"ok"})
    \/ AppDelete({"ok"}, {"ok"})
    \/ TypeLocality
    \/ AppSearchLocality({"ok"})
    \/ AppViewLog({"ok"})

SpecGuard == InitGuard /\ [][NextGuard]_vars

\* The procedure calls that hand back a cursor: Retrieve in both entry
\* points (the person id set by an insert before) and Search by locality.
NextCursor ==
    \/ CensusAppConnect({ValidPort}, {"ok"}, {"ok"})
    \/ CensusAppInsertPerson({"ok"}, {"ok"}, {"number"})
    \/ CensusAppRetrieve(ExecOutcomes, {SamplePerson})
    \/ AppConnect({ValidPort}, {"ok"})
    \/ AppInsert({"ok"}, {"ok"}, {"number"})
    \/ AppRetrieve(ExecOutcomes, {SamplePerson})
    \/ TypeLocality
    \/ AppSearchLocality(ExecOutcomes)

SpecCursor == InitGateway /\ [][NextCursor]_vars

\* The handlers under backend and driver errors.
NextErrors ==
    \/ CensusAppConnect({ValidPort}, ConnectOutcomes, ExecOutcomes)
    \/ CensusAppRefreshAll(ExecOutcomes)
    \/ CensusAppLoadHouseholds(ExecOutcomes)
    \/ CensusAppRegionSelected(ExecOutcomes)
    \/ CensusAppShowDbStats(ExecOutcomes)
    \/ CensusAppInsertPerson(ExecOutcomes, CommitOutcomes, {"number"})
    \/ AppConnect({ValidPort}, ConnectOutcomes)
    \/ AppInsert(ExecOutcomes, CommitOutcomes, {"number"})
    \/ AppRetrieve(ExecOutcomes, {SamplePerson})

SpecErrors == InitGateway /\ [][NextErrors]_vars

\* The run up to its end: connects and disconnects, then File > Exit or the
\* window's close button, after which no handler runs.
Running == act.name \notin {"quit", "destroy"}

\* File > Exit of census_app: command=self.quit ends mainloop, and the
\* script ends after it; no handler of the application runs on the way.
Exit ==
    /\ app = "census_app"
    /\ Running
    /\ act' = NoAct("quit")
    /\ UNCHANGED <<app, db, conns, committed, failed, callNo, mut, status,
                   connFailed, form, gridVars>>

\* The window's close button: no WM_DELETE_WINDOW handler is registered in
\* either file, so Tk destroys the window and mainloop returns.
WindowClose ==
    /\ Running
    /\ act' = NoAct("destroy")
    /\ UNCHANGED <<app, db, conns, committed, failed, callNo, mut, status,
                   connFailed, form, gridVars>>

NextExit ==
    \/ Running /\ CensusAppConnect(PortTexts, ConnectOutcomes, ExecOutcomes)
    \/ Running /\ CensusAppDisconnect
    \/ Running /\ CensusAppLoadHouseholds(ExecOutcomes)
    \/ Running /\ AppConnect(PortTexts, ConnectOutcomes)
    \/ Running /\ AppInsert({"ok"}, CommitOutcomes, {"number"})
    \/ Exit
    \/ WindowClose

SpecExit == InitGateway /\ [][NextExit]_vars

\* Queries of census_app feeding the persons grid, between mutating calls
\* whose commit may fail with the transaction left open.
InitQuery ==
    /\ app = "census_app"
    /\ AppStart
    /\ GridStart("person_tree")

NextQuery ==
    \/ CensusAppConnect({ValidPort}, {"ok"}, {"ok"})
    \/ CensusAppClearLog({"ok"}, {"ok", "error_pending"})
    \/ CensusAppLoadPersons(ExecOutcomes)

SpecQuery == InitQuery /\ [][NextQuery]_vars

\* Export from a grid of fixed columns that some handler has loaded.
InitExport ==
    /\ app = "census_app"
    /\ AppStart
    /\ \E w \in {"person_tree", "ea_tree"} : \E rows \in RowSets(w) :
          /\ which = w
          /\ columns = InitialColumns(w)
          /\ data = rows
          /\ search = <<>>
          /\ tree = [i \in 1..Len(rows) |-> row_values(InitialColumns(w), rows[i])]
          /\ selection = NoSelection
          /\ oldTrees = <<>>
          /\ file = NoFile
          /\ dialog = NoDialog
          /\ last = [op |-> "load_data", arg |-> rows, selected |-> <<>>]

NextExport == ExportCsv \/ Search

SpecExport == InitExport /\ [][NextExport]_vars

(***************************************************************************)
(* Properties of the gateway and the sessions.                             *)
(***************************************************************************)
OpenConns == {c \in 1..Len(conns) : conns[c].state = "open"}

\* C1: every successful mutating gateway call has committed exactly once when
\* it returns and its write is durable; no write of a successful call is left
\* in the open transaction of any session between two user actions.
C1_SuccessfulCallCommitsOnce ==
    /\ mut.result = "ok" => (mut.commits = 1 /\ mut.no \in committed)
    /\ \A c \in 1..Len(conns) : conns[c].txn \subseteq failed

\* A second mutating call has succeeded and both calls' writes are durable.
C1_Witness ==
    /\ mut.result = "ok"
    /\ mut.no = 2
    /\ committed = {1, 2}
    /\ failed = {}

\* C2: nothing written by a failed mutating call is ever committed, neither
\* by that call nor by the commit of a later successful call.
C2_FailedCallNeverCommitted == committed \cap failed = {}

\* C3: at most one backend connection is open at any time, in either entry
\* point.
C3_AtMostOneOpenConnection == Cardinality(OpenConns) <= 1

\* C4: after a failed connect, and until a connect succeeds, the application
\* holds no session object and no action issues a call on a closed connection.
C4_FailedConnectLeavesDisconnected ==
    connFailed => (db = NoDb /\ ~act.onClosed)

\* C5: when the person form holds text that does not coerce, Insert and
\* Update issue no backend call.
C5_BadTextIssuesNoCall ==
    (act.name \in {"insert_person", "update_person"} /\ act.badForm)
        => act.calls = 0


(***************************************************************************)
(* Properties of the tabular view.                                         *)
(***************************************************************************)
upper_ch(ch) ==
    IF \E i \in 1..26 : LowerLetters[i] = ch
    THEN UpperLetters[CHOOSE i \in 1..26 : LowerLetters[i] = ch]
    ELSE ch

\* t occurs in hay when letter case is disregarded.
OccursIgnoringCase(t, hay) ==
    \E k \in 0..(Len(hay) - Len(t)) :
        \A j \in 1..Len(t) : upper_ch(hay[k + j]) = upper_ch(t[j])

\* The row contains t in the string form of a declared column.
RowContains(row, t) ==
    \E i \in 1..Len(columns) : OccursIgnoringCase(t, str(get(row, columns[i])))

RECURSIVE RowsContaining(_, _)
RowsContaining(rows, t) ==
    IF rows = <<>> THEN <<>>
    ELSE (IF RowContains(Head(rows), t) THEN <<Head(rows)>> ELSE <<>>)
         \o RowsContaining(Tail(rows), t)

\* The rows as a tree shows them.
Shown(rows) == [i \in 1..Len(rows) |-> row_values(columns, rows[i])]

\* C6: once the filter is set to t, the tree shows exactly the loaded rows
\* that contain t, case-insensitively, in the string form of a declared
\* column, in load order.
C6_FilterShowsMatchingRows ==
    last.op = "search" => tree = Shown(RowsContaining(data, last.arg))

\* A filter in another letter case than the cell hides one row and keeps one.
C6_Witness ==
    /\ last.op = "search"
    /\ last.arg = <<"f">>
    /\ which = "person_tree"
    /\ Len(data) = 2
    /\ data[1].sex = StrV(<<"M">>)
    /\ data[2].sex = StrV(<<"F">>)
    /\ Len(tree) = 1

\* C7 as the specification words it: load_data leaves the filter text empty
\* and every loaded row visible.
C7_LoadResetsFilter ==
    last.op = "load_data" => (search = <<>> /\ tree = Shown(data))

\* C7: load_data replaces the row set and keeps the filter text; the tree
\* then shows the rows of the new set that pass that filter.
C7_LoadKeepsFilter ==
    [][last'.op = "load_data" =>
          /\ data' = last'.arg
          /\ search' = search
          /\ tree' = Shown(RowsContaining(data', search))]_vars

\* A load under a filter that hides one of the two rows loaded.
C7_Witness ==
    /\ last.op = "load_data"
    /\ search = <<"f">>
    /\ Len(data) = 2
    /\ Len(tree) = 1

\* C8: after a column reconfiguration no widget of the view, whether of this
\* configuration or an earlier one, holds or shows a row loaded under the
\* columns before, and no row is read until the next load.
C8_ReconfigureDropsOldRows ==
    \A i \in 1..Len(oldTrees) : oldTrees[i] = <<>>

\* C9: filtering leaves the row set as it is, and an empty filter shows all
\* of it in load order.
C9_FilterKeepsRowSet ==
    /\ [](last.op = "search" /\ search = <<>> => tree = Shown(data))
    /\ [][last'.op \in {"search", "search_old"} => data' = data]_vars

\* Both rows are back after the filter was emptied.
C9_Witness ==
    /\ last.op = "search"
    /\ search = <<>>
    /\ Len(data) = 2
    /\ data[1] # data[2]
    /\ tree = Shown(data)

(***************************************************************************)
(* Properties of the export.                                               *)
(***************************************************************************)
\* csv.reader over the characters of a file opened with newline=''.  The
\* reader's state: the records read (recs), the fields of the record being
\* read (rec), the field being read (field), where in a field it is (st), and
\* whether the character before was a carriage return that ended a record.
ReaderStart ==
    [st |-> "field_start", field |-> <<>>, rec |-> <<>>, recs |-> <<>>, cr |-> FALSE]

csv_step(r, c) ==
    LET endField == [r EXCEPT !.st = "field_start", !.field = <<>>,
                              !.rec = Append(r.rec, r.field), !.cr = FALSE]
        endRecord == [r EXCEPT !.st = "field_start", !.field = <<>>, !.rec = <<>>,
                               !.recs = Append(r.recs, Append(r.rec, r.field)),
                               !.cr = (c = "\r")]
        blank == [r EXCEPT !.recs = Append(r.recs, <<>>), !.cr = (c = "\r")]
        more(st) == [r EXCEPT !.st = st, !.field = Append(r.field, c), !.cr = FALSE]
    IN CASE r.st = "field_start" ->
              IF r.cr /\ c = "\n" THEN [r EXCEPT !.cr = FALSE]
              ELSE IF c = "\"" THEN [r EXCEPT !.st = "in_quoted", !.cr = FALSE]
              ELSE IF c = "," THEN endField
              ELSE IF c \in {"\r", "\n"}
              THEN (IF r.rec = <<>> THEN blank ELSE endRecord)
              ELSE more("in_field")
         [] r.st = "in_field" ->
              IF c = "," THEN endField
              ELSE IF c \in {"\r", "\n"} THEN endRecord
              ELSE more("in_field")
         [] r.st = "in_quoted" ->
              IF c = "\"" THEN [r EXCEPT !.st = "quote_in_quoted"]
              ELSE more("in_quoted")
         [] r.st = "quote_in_quoted" ->
              IF c = "\"" THEN more("in_quoted")
              ELSE IF c = "," THEN endField
              ELSE IF c \in {"\r", "\n"} THEN endRecord
              ELSE more("in_field")

\* The reader's state after the characters lo..hi of txt, read from state r.
\* The characters are read in order, first half then second half; the test
\* on the first half's state has it evaluated before the second is entered.
RECURSIVE csv_run(_, _, _, _)
csv_run(txt, lo, hi, r) ==
    IF lo > hi THEN r
    ELSE IF lo = hi THEN csv_step(r, txt[lo])
    ELSE LET mid == (lo + hi) \div 2
             left == csv_run(txt, lo, mid, r)
         IN IF left.cr \in BOOLEAN THEN csv_run(txt, mid + 1, hi, left) ELSE left

csv_reader(txt) ==
    LET r == csv_run(txt, 1, Len(txt), ReaderStart)
    IN IF r.st = "field_start" /\ r.rec = <<>> THEN r.recs
       ELSE Append(r.recs, Append(r.rec, r.field))

\* The lines of a text: one for each line feed in it.
LineCount(txt) == Cardinality({i \in 1..Len(txt) : txt[i] = "\n"})

Exported == last.op = "export" /\ dialog.box = "info"

\* The text a cell has in the file: empty for an absent key and for None.
CellText(row, col) == IF col \in DOMAIN row THEN csv_text(row[col]) ELSE <<>>

HeaderNames == [i \in 1..Len(columns) |-> ColumnText[columns[i]]]

\* The records of the file are the header in column order and then, row by
\* row, one field per declared column.
RecordsAgree ==
    LET recs == csv_reader(file.text)
    IN /\ Len(recs) = 1 + Len(data)
       /\ recs[1] = HeaderNames
       /\ \A r \in 1..Len(data) :
             recs[r + 1] = [i \in 1..Len(columns) |-> CellText(data[r], columns[i])]

\* C10 as the specification words it: the file has the header line and one
\* line per row, and parses back to the same columns and row count.
C10_OneLinePerRow ==
    Exported => (LineCount(file.text) = 1 + Len(data) /\ RecordsAgree)

\* C10: an export of a non-empty row set writes the header record in column
\* order and one CSV record per row holding every declared column, an absent
\* column as empty text; parsing the file back gives the same columns and as
\* many records as rows.  (A record is one line unless a cell has a line
\* break, which is written inside quotes.)
C10_OneRecordPerRow == Exported => (file.exists /\ RecordsAgree)

\* An export of two rows, one lacking declared columns, one with a comma and
\* a quote in its cells.
C10_Witness ==
    /\ Exported
    /\ which = "ea_tree"
    /\ Len(data) = 2
    /\ "region_code" \notin DOMAIN data[1]
    /\ data[2].ea_code = StrV(<<"E", ",", "3">>)

\* C11: an export with no rows loaded is refused with a warning; the save
\* dialog is not asked and no file is opened or written.
C11_EmptyExportWritesNothing ==
    [][(last'.op = "export" /\ data = <<>>) =>
          /\ file' = file
          /\ ~dialog'.asked
          /\ dialog'.box = "warning"]_vars

\* The Export CSV button was pressed on a grid with no rows.
C11_Witness ==
    /\ last.op = "export"
    /\ data = <<>>
    /\ dialog.box = "warning"
    /\ ~file.exists

(***************************************************************************)
(* Properties of the handlers' preconditions and of the person lifecycle.  *)
(***************************************************************************)
\* C12: a handler whose local precondition fails issues no backend call: Add
\* Household with a required field empty, View Members with no household
\* selected, Retrieve, Update or Delete with no person id.
C12_PreconditionFailureIssuesNoCall ==
    [][(\/ /\ act'.name = "add_household"
           /\ \E i \in 1..Len(RequiredHousehold) :
                 act'.input[RequiredHousehold[i]] = <<>>
        \/ /\ act'.name = "view_household_members"
           /\ act'.input = None
        \/ /\ act'.name \in {"retrieve_person", "update_person", "delete_person"}
           /\ form.person_id = <<>>)
       => (act'.calls = 0 /\ callNo' = callNo)]_vars

\* Connected, Add Household was pressed with a required field left empty.
C12_Witness ==
    /\ db # NoDb
    /\ act.name = "add_household"
    /\ act.input.ea_code # <<>>
    /\ act.input.household_no = <<>>
    /\ act.dialogs = {"warning"}

\* C13: with a session held and a person id entered, Update issues one update
\* call and Delete (once confirmed) one delete call, keyed by that person id,
\* in either entry point.
C13_UpdateAndDeleteReachBackend ==
    (/\ act.name \in {"update_person", "delete_person"}
     /\ db # NoDb
     /\ int(form.person_id) \notin {ValueError, IntV(0)}
     /\ (app = "census_crud_ui" /\ act.name = "delete_person") => act.input = TRUE)
    => /\ act.calls = 1
       /\ mut.op = (IF act.name = "update_person" THEN "sp_update_person"
                    ELSE "sp_delete_person")
       /\ act.args[1] = int(form.person_id)

(***************************************************************************)
(* Properties of the record mapper.                                        *)
(***************************************************************************)
\* The parameter a form text stands for: null for the empty text, the
\* integer for line_no and age_years, the date for date_of_birth, the text
\* itself otherwise.
ParamOf(k, text) ==
    IF text = <<>> THEN None
    ELSE IF k \in {"line_no", "age_years"} THEN IntV(DigitsValue(text))
    ELSE IF k = "date_of_birth" THEN strptime(text)
    ELSE StrV(text)

\* C14: the insert call receives (ea_code, structure_no, household_no,
\* line_no, full_name, sex, date_of_birth, age_years, nationality, ethnicity,
\* religion, marital_status, OUT person_id), each taken from the form field of
\* that name: null when empty, an integer for integer text; the list depends
\* on the form alone, not on the entry point.
C14_InsertParameterList ==
    (act.name = "insert_person" /\ act.calls > 0) =>
        act.args = <<ParamOf("ea_code", form.ea_code),
                     ParamOf("structure_no", form.structure_no),
                     ParamOf("household_no", form.household_no),
                     ParamOf("line_no", form.line_no),
                     ParamOf("full_name", form.full_name),
                     ParamOf("sex", form.sex),
                     ParamOf("date_of_birth", form.date_of_birth),
                     ParamOf("age_years", form.age_years),
                     ParamOf("nationality", form.nationality),
                     ParamOf("ethnicity", form.ethnicity),
                     ParamOf("religion", form.religion),
                     ParamOf("marital_status", form.marital_status),
                     OutVar>>

\* census_crud_ui inserted a person with age_years "12" and no line_no.
C14_Witness ==
    /\ app = "census_crud_ui"
    /\ act.name = "insert_person"
    /\ act.calls = 1
    /\ form.age_years = <<"1", "2">>
    /\ form.line_no = <<>>
    /\ act.args[8] = IntV(12)
    /\ act.args[4] = None
    /\ act.args[12] = StrV(<<"S">>)

\* census_app inserted the same person.
C14_WitnessCensusApp ==
    /\ app = "census_app"
    /\ act.name = "insert_person"
    /\ act.calls > 0
    /\ form.age_years = <<"1", "2">>
    /\ form.line_no = <<>>
    /\ act.args[8] = IntV(12)

\* C15: a person sent to the backend and read back from the echoed row into
\* the person form has every field as it was, person_id apart.
C15_RoundTripReproducesPerson ==
    [][act'.name = "retrieve_person" =>
          \A i \in 2..Len(PersonVars) : form'[PersonVars[i]] = form[PersonVars[i]]]_vars

\* The round trip as census_app makes it.
C15_CensusAppOnly ==
    [][(app = "census_app" /\ act'.name = "retrieve_person") =>
          \A i \in 2..Len(PersonVars) : form'[PersonVars[i]] = form[PersonVars[i]]]_vars


\* C16: what get_selected_row returns is None exactly when no item is
\* selected, and is otherwise the values, under the current columns, of one
\* of the rows the grid currently holds.
C16_SelectedRowIsLoaded ==
    LET r == get_selected_row(Grid)
    IN  /\ (selection = NoSelection) <=> (r = None)
        /\ r # None =>
              \E j \in 1..Len(data) :
                  /\ DOMAIN r = {columns[i] : i \in 1..Len(columns)}
                  /\ \A c \in DOMAIN r : r[c] = str(get(data[j], c))

\* A row is selected in the report grid after it was reconfigured, loaded
\* and filtered so that the tree shows fewer rows than are loaded.
C16_Witness ==
    /\ which = "report_tree"
    /\ oldTrees # <<>>
    /\ search # <<>>
    /\ selection # NoSelection
    /\ Len(tree) < Len(data)
    /\ get_selected_row(Grid) # None

\* A row is selected in the persons grid after a load and a filter.
C16_WitnessFixedColumns ==
    /\ which = "person_tree"
    /\ search # <<>>
    /\ selection # NoSelection
    /\ Len(tree) < Len(data)


(***************************************************************************)
(* Properties of the read path.                                            *)
(***************************************************************************)
\* The keys that are the lower-cased names of a description.
LowerCasedNames(d) == {NameOf(lower(d[i])) : i \in 1..Len(d)}

\* C17: a query commits nothing and leaves the backend's state (what is
\* committed, each session's open transaction) as it was; when it has
\* returned, the rows are one per tuple of the cursor, in the cursor's order,
\* every row keyed by the same set, the lower-cased column names, and holding
\* under a name the tuple's value of the (last) column of that name.
C17_QueryReadsOnly ==
    /\ [][(act'.name = "load_persons" /\ last'.op = "load_persons") =>
             /\ committed' = committed
             /\ conns' = conns
             /\ mut' = mut]_vars
    /\ []((act.name = "load_persons" /\ last.op = "load_persons"
             /\ "person_tree" \in act.loaded) =>
            LET d == last.arg.description
                f == last.arg.fetched
            IN /\ Len(data) = Len(f)
               /\ \A j \in 1..Len(f) :
                     /\ DOMAIN data[j] = LowerCasedNames(d)
                     /\ \A i \in 1..Len(d) :
                           (\A k \in (i + 1)..Len(d) : lower(d[k]) # lower(d[i]))
                              => data[j][NameOf(lower(d[i]))] = f[j][i])

\* Two rows were read under column names of mixed case while the session
\* held an uncommitted write.
C17_Witness ==
    /\ last.op = "load_persons"
    /\ "person_tree" \in act.loaded
    /\ act.calls = 1
    /\ Len(data) = 2
    /\ last.arg.description[2] = <<"F", "u", "l", "l", "_", "N", "a", "m", "e">>
    /\ data[1].full_name = last.arg.fetched[1][2]
    /\ db # NoDb
    /\ conns[db].txn # {}


(***************************************************************************)
(* Properties of the run's end.                                            *)
(***************************************************************************)
\* C18: when the run has ended (File > Exit, the window's close button, the
\* return of mainloop), every connection the run opened has been closed.
C18_NoRunEndsWithOpenConnection ==
    ~Running => \A c \in 1..Len(conns) : conns[c].state = "closed"


(***************************************************************************)
(* Properties of error handling.                                           *)
(***************************************************************************)
\* C19: the backend and driver errors raised inside a user action are each
\* caught in the handler and shown with the error's text: none leaves the
\* handler, none is dropped unshown.
C19_ErrorsCaughtAndShown ==
    act.errors > 0 => (~act.escaped /\ act.shown = act.errors)

\* The errors of the handlers that catch around the whole call.
C19_CaughtByOtherHandlers ==
    (act.errors > 0 /\ act.name \notin {"on_region_selected", "show_db_stats"})
        => (~act.escaped /\ act.shown = act.errors)


(***************************************************************************)
(* Properties of recovery.                                                 *)
(***************************************************************************)
\* C20: whatever failed before, a connect with valid parameters that the
\* backend accepts leaves the application holding the session it opened,
\* open; and while an open session is held, the data actions (load, refresh,
\* insert of a well-formed person) reach the backend on it.
C20_ReconnectResumesWork ==
    /\ [][Len(conns') > Len(conns) =>
             /\ db' = Len(conns')
             /\ conns'[db'].state = "open"
             /\ ~connFailed']_vars
    /\ []((/\ db # NoDb
           /\ conns[db].state = "open"
           /\ act.name \in {"load_households", "refresh_all_data", "insert_person"}
           /\ ~act.badForm)
          => (act.calls >= 1 /\ ~act.onClosed))

\* census_app loads households over its second session, opened after a
\* gateway call had failed and the first session was closed.
C20_Witness ==
    /\ app = "census_app"
    /\ failed # {}
    /\ Len(conns) = 2
    /\ conns[1].state = "closed"
    /\ db = 2
    /\ conns[2].state = "open"
    /\ act.name = "load_households"
    /\ act.calls = 1
    /\ ~act.onClosed
    /\ act.dialogs = {}


(***************************************************************************)
(* Properties of the activity log.                                         *)
(***************************************************************************)
\* C21: a mutating call that deletes from or updates the activity log is
\* issued by Clear Log alone, and its statement has no WHERE clause: it
\* removes every entry; no client statement names a single entry.
C21_LogRemovedOnlyInBulk ==
    [][mut'.no # mut.no =>
          LET st == Statement(mut'.op)
          IN (st.target = "activity_log" /\ st.kind \in {"delete", "update"})
                => (act'.name = "clear_activity_log" /\ ~st.where)]_vars

\* Clear Log was confirmed and its delete was committed.
C21_Witness ==
    /\ act.name = "clear_activity_log"
    /\ mut.op = "clear_activity_log"
    /\ Statement(mut.op).target = "activity_log"
    /\ mut.result = "ok"
    /\ mut.no \in committed


(***************************************************************************)
(* Properties of cursor-valued OUT parameters.                             *)
(***************************************************************************)
\* C22: when sp_get_person_by_id or sp_search_persons_by_locality has
\* returned, the OUT cursor has been read to its end, so nothing is left to
\* read after the call, and what was returned is rows held in memory: every
\* tuple of the cursor for the search, the first one (or None) for the
\* retrieve.
C22_CursorDrainedBeforeReturn ==
    (act.name \in {"retrieve_person", "search_locality"}
       /\ act.calls = 1 /\ act.errors = 0)
    => /\ act.cursor.pos = Len(act.cursor.tuples)
       /\ act.name = "search_locality" =>
             /\ Len(act.returned) = Len(act.cursor.tuples)
             /\ \A j \in 1..Len(act.returned) : DOMAIN act.returned[j] # {}
       /\ act.name = "retrieve_person" =>
             act.returned = (IF act.cursor.tuples = <<>> THEN None
                             ELSE act.cursor.tuples[1])

\* A search returned the two rows of its cursor.
C22_Witness ==
    /\ act.name = "search_locality"
    /\ act.calls = 1
    /\ act.errors = 0
    /\ Len(act.cursor.tuples) = 2
    /\ act.cursor.pos = 2
    /\ Len(act.returned) = 2

\* A retrieve returned the one row of its cursor.
C22_WitnessRetrieve ==
    /\ act.name = "retrieve_person"
    /\ act.errors = 0
    /\ Len(act.cursor.tuples) = 1
    /\ act.cursor.pos = 1
    /\ act.returned # None


(***************************************************************************)
(* Properties of Retrieve followed by Update.                              *)
(***************************************************************************)
\* The row a retrieve found and returned, if the last action was one.
Retrieved(a) ==
    a.name = "retrieve_person" /\ a.calls = 1 /\ a.errors = 0
      /\ a.returned # None

\* C23: in census_crud_ui an Update that follows at once a Retrieve that
\* found the person sends, for every attribute (full_name, sex,
\* date_of_birth, age_years, nationality, ethnicity, religion,
\* marital_status), the value the person has in store.
C23_RetrieveThenUpdateKeepsPerson ==
    [][(app = "census_crud_ui" /\ Retrieved(act)
          /\ act'.name = "update_person" /\ act'.calls = 1)
       => \A i \in 2..Len(UpdateParams) :
             act'.args[i] = act.returned[UpdateParams[i]]]_vars

\* The same for the two attributes Retrieve writes into the form as they are.
C23_NameAndSexKept ==
    [][(app = "census_crud_ui" /\ Retrieved(act)
          /\ act'.name = "update_person" /\ act'.calls = 1)
       => \A i \in 2..3 : act'.args[i] = act.returned[UpdateParams[i]]]_vars


(***************************************************************************)
(* Properties of the not-connected guard.                                  *)
(***************************************************************************)
\* The handlers that need the backend.
DataActions ==
    {"refresh_all_data", "load_households", "load_persons", "load_activity_log",
     "add_household", "view_household_members", "insert_person",
     "retrieve_person", "show_report", "clear_activity_log",
     "on_region_selected", "show_db_stats", "update_person", "delete_person",
     "search_locality", "view_log"}

\* C24: a handler that needs the backend, run while no session is held,
\* issues no backend call, loads no grid and leaves the rows and the items
\* of the grid as they were.
C24_NotConnectedIssuesNoCall ==
    [][(db = NoDb /\ act'.name \in DataActions) =>
          /\ act'.calls = 0
          /\ callNo' = callNo
          /\ mut' = mut
          /\ act'.loaded = {}
          /\ data' = data
          /\ tree' = tree
          /\ columns' = columns]_vars

\* Load All was pressed after a disconnect, the persons grid holding rows.
C24_Witness ==
    /\ db = NoDb
    /\ Len(conns) > 0
    /\ act.name = "load_persons"
    /\ act.calls = 0
    /\ act.dialogs = {"warning"}
    /\ data # <<>>

\* A report button was pressed after a disconnect, the report grid loaded.
C24_WitnessReport ==
    /\ db = NoDb
    /\ act.name = "show_report"
    /\ act.dialogs = {"warning"}
    /\ which = "report_tree"
    /\ data # <<>>


(***************************************************************************)
(* Properties of the connection label of census_app.                       *)
(***************************************************************************)
\* C25: in census_app the status label reads "Connected" exactly when the
\* application holds a session (db is not None) whose connection has not
\* been closed.
C25_LabelConnectedIffSessionOpen ==
    app = "census_app" =>
       (status = "Connected" <=> (db # NoDb /\ conns[db].state = "open"))

\* A second connect succeeded: the label reads "Connected" over the new
\* session, the first one closed.
C25_Witness ==
    /\ app = "census_app"
    /\ status = "Connected"
    /\ db = 2
    /\ conns[1].state = "closed"
    /\ conns[2].state = "open"

\* A connect failed while a session was held: db still names the session,
\* which is closed, and the label reads "Connection Failed".
C25_WitnessFailedReconnect ==
    /\ app = "census_app"
    /\ db # NoDb
    /\ conns[db].state = "closed"
    /\ status = "Connection Failed"

(***************************************************************************)
(* Properties of the confirmation of destructive actions.                  *)
(***************************************************************************)
\* The handlers that destroy stored data: Delete of census_crud_ui and
\* Clear Log of census_app.
Destructive(a) ==
    \/ app = "census_crud_ui" /\ a.name = "delete_person"
    \/ app = "census_app" /\ a.name = "clear_activity_log"

\* C26: Delete person and Clear Log reach the backend only when the user
\* confirmed; when the user declined, the handler issues no backend call and
\* the stored persons and log entries are as they were.
C26_DestructiveOnlyWhenConfirmed ==
    [][Destructive(act') =>
          /\ (act'.calls > 0 => act'.input = TRUE)
          /\ (mut'.no # mut.no => act'.input = TRUE)
          /\ (act'.input = FALSE =>
                 /\ act'.calls = 0
                 /\ callNo' = callNo
                 /\ mut' = mut
                 /\ committed' = committed
                 /\ failed' = failed)]_vars

\* Delete was declined, a session held, an id in the form and a committed
\* change in store.
C26_Witness ==
    /\ app = "census_crud_ui"
    /\ act.name = "delete_person"
    /\ act.input = FALSE
    /\ db # NoDb
    /\ form.person_id # <<>>
    /\ act.dialogs = {}
    /\ committed # {}

\* Clear Log was confirmed and the log emptied.
C26_WitnessClearLog ==
    /\ app = "census_app"
    /\ act.name = "clear_activity_log"
    /\ act.input = TRUE
    /\ mut.op = "clear_activity_log"
    /\ mut.no \in committed

\* Clear Log was declined while a session was held.
C26_WitnessClearLogDeclined ==
    /\ app = "census_app"
    /\ act.name = "clear_activity_log"
    /\ act.input = FALSE
    /\ db # NoDb
    /\ act.calls = 0

(***************************************************************************)
(* Properties of the export under a filter.                                *)
(***************************************************************************)
\* The records of a file after its header record.
DataRecords(txt) == Tail(csv_reader(txt))

\* C27 as the specification words it: the file has as many data lines as
\* rows are loaded, whatever the filter hides.
C27_DataLinesEqualLoadedRows ==
    (Exported /\ Len(tree) < Len(data)) =>
        LineCount(file.text) - 1 = Len(data)

\* C27: an export writes every loaded row in load order, one CSV record per
\* row, whatever the filter shows: the data records of the file are the
\* loaded rows, also when the tree shows fewer rows or none.
C27_ExportIgnoresFilter ==
    Exported =>
        DataRecords(file.text) =
            [r \in 1..Len(data) |->
                [i \in 1..Len(columns) |-> CellText(data[r], columns[i])]]

\* An export of two rows under a filter that hides both.
C27_Witness ==
    /\ Exported
    /\ search # <<>>
    /\ Len(data) = 2
    /\ tree = <<>>
    /\ Len(DataRecords(file.text)) = 2

\* An export of two rows under a filter that hides one of them.
C27_WitnessOneHidden ==
    /\ Exported
    /\ Len(data) = 2
    /\ Len(tree) = 1

(***************************************************************************)
(* Properties of the view against the row set.                             *)
(***************************************************************************)
\* What an item shows of a row under a column: the row's value, and empty
\* text for a key the row lacks.
CellShown(row, col) == IF col \in DOMAIN row THEN row[col] ELSE StrV(<<>>)

\* C28: at every moment (after every load_data, search-text change and
\* column reconfiguration) the items of the current tree are the loaded rows
\* that pass the current filter, in load order, each as its values in
\* declared column order, a missing key as empty text.
C28_ViewAgreesWithRowSet ==
    LET passing == RowsContaining(data, search)
    IN /\ Len(tree) = Len(passing)
       /\ \A i \in 1..Len(tree) :
             /\ Len(tree[i]) = Len(columns)
             /\ \A j \in 1..Len(columns) :
                   tree[i][j] = CellShown(passing[i], columns[j])

\* A filter hides one of two loaded rows; the row shown lacks a declared
\* column, which its item shows as empty text.
C28_Witness ==
    /\ which = "ea_tree"
    /\ last.op = "search"
    /\ search # <<>>
    /\ Len(data) = 2
    /\ Len(tree) = 1
    /\ \E j \in 1..Len(columns) :
          /\ \E r \in 1..Len(data) :
                columns[j] \notin DOMAIN data[r] /\ RowContains(data[r], search)
          /\ tree[1][j] = StrV(<<>>)

\* The report grid after a second reconfiguration, its rows loaded.
C28_WitnessReconfigured ==
    /\ which = "report_tree"
    /\ last.op = "show_report"
    /\ Len(oldTrees) = 2
    /\ tree # <<>>
    /\ Len(tree) = Len(data)

\* The search entry of an earlier configuration was edited while the current
\* one shows rows.
C28_WitnessOldEntry ==
    /\ last.op = "search_old"
    /\ tree # <<>>

(***************************************************************************)
(* Properties of the selection.                                            *)
(***************************************************************************)
\* The grid operations that are a load_data or a change of the search text.
Refreshing == {"load_data", "show_report", "search", "search_old"}

\* C29: after a load_data and after a change of the search text nothing is
\* selected and get_selected_row returns None, until the user selects an item
\* again; so also when the item selected before is still in the tree.
C29_RefreshClearsSelection ==
    last.op \in Refreshing =>
        (selection = NoSelection /\ get_selected_row(Grid) = None)

\* The search text was changed while an item was selected, and the tree
\* still has that item.
C29_Witness ==
    /\ last.op = "search"
    /\ last.selected # <<>>
    /\ \E i \in 1..Len(tree) : tree[i] = last.selected[1]
    /\ get_selected_row(Grid) = None

\* The rows were loaded again while one of them was selected.
C29_WitnessLoad ==
    /\ last.op = "load_data"
    /\ last.selected # <<>>
    /\ \E i \in 1..Len(tree) : tree[i] = last.selected[1]
    /\ selection = NoSelection

(***************************************************************************)
(* Properties of the filter on null cells.                                 *)
(***************************************************************************)
\* The row has, under a declared column, a cell that is not null and whose
\* text contains t when letter case is disregarded.
NonNullCellContains(row, t) ==
    \E i \in 1..Len(columns) :
        /\ columns[i] \in DOMAIN row
        /\ row[columns[i]] # None
        /\ OccursIgnoringCase(t, str(row[columns[i]]))

\* The loaded rows the tree shows an item of.
ShownRows == {r \in 1..Len(data) : \E i \in 1..Len(tree) : tree[i] = row_values(columns, data[r])}

\* C30: under a non-empty filter text a null cell counts as a missing column
\* does: every row shown has the text in a cell that is not null, so a row
\* whose declared columns are all null or absent is hidden, and no text
\* ("none", say) shows a row only because one of its cells is null.
C30_NullCellMatchesNoFilter ==
    (last.op = "search" /\ search # <<>>) =>
        \A r \in ShownRows : NonNullCellContains(data[r], search)
====
